---------------------------- MODULE Spec2Model ----------------------------
(***************************************************************************)
(* A model of the Yad2 listing monitor of src/app.py: the snapshot diff    *)
(* engine (Yad2Monitor.check_for_changes, update_price_history), the       *)
(* pagination pass (scrape_all_pages), one iteration of the run loop       *)
(* (monitor) and the adaptive delay controller (AdaptiveDelayManager).     *)
(*                                                                         *)
(* Python values are modelled as follows.  A price is a natural number;    *)
(* NoPrice (0) stands for every falsy price (None, 0).  A timestamp        *)
(* (datetime.now().isoformat()) is the value of a logical clock.  A dict   *)
(* is a function whose DOMAIN is the dict's key set.                       *)
(***************************************************************************)
EXTENDS Integers, Sequences, FiniteSets, TLC

VARIABLES
    apartments,        \* self.apartments: id -> [price, last_seen]
    price_history,     \* self.price_history: id -> Seq([price, timestamp])
    current_check_apartments, \* self.current_check_apartments
    diff,              \* the last run's new_apartments_list, price_changes_list, removed_apartments
    now,               \* the logical clock read by datetime.now()
    runs,              \* number of check_for_changes runs so far
    lastInput,         \* the <<id, price>> list the last check_for_changes got
    sameInput,         \* the last run got the same list as the run before it
    preApartments,     \* self.apartments as the last run found it
    preHistory,        \* self.price_history as the last run found it
    lastSite,          \* the listing source the last pagination pass read
    scraped,           \* what the last scrape_all_pages returned
    stopReason,        \* why the last pagination pass ended, at which page, and the
                       \* pages fetch_page was called for, in the order of the calls
    iteration,         \* the iteration counter of monitor
    history,           \* AdaptiveDelayManager.history
    current_multiplier,\* AdaptiveDelayManager.current_multiplier, a fraction <<n, d>>
    clock,             \* wall-clock time in hours, read by datetime.now()
    calls,             \* number of calls of the delay manager since its construction
    lastCall,          \* the last call of the delay manager: which, when, the number
                       \* of recent events its analysis counted (-1: it did not get
                       \* that far), and the Strategy and multiplier it started from
    config,            \* Yad2Monitor.min_interval, max_interval (seconds)
    lastDelay,         \* what get_page_delay or get_random_interval returned, when
                       \* the last step was such a call
    use_parallel_messages, \* self.use_parallel_messages
    lastDispatch,      \* the send_batch_telegram_messages call of the last step: the
                       \* number of messages, the way taken, the delivery attempts
    running,           \* the while loop of monitor has not been left
    lastIteration,     \* the last iteration of monitor: what interrupted it and the
                       \* phases it went through, in order
    data_file,         \* what save_data last wrote: yad2_data.json, price_history.json
    lastFetch,         \* the last fetch_page call: its attempts and what it returned
    lastSend,          \* the last send_telegram_message call: its attempts and result
    lastStart,         \* the last AdaptiveDelayManager(): the history file it found
                       \* and whether it raised
    control,           \* where the thread of monitor is: its phase, the cycle sleep
                       \* under way, the notifications attempted, how it was left
    db                 \* one Database instance: who holds _write_lock, where each
                       \* thread is in its method, the statements committed

diffVars == <<apartments, price_history, current_check_apartments, diff, now,
              runs, lastInput, sameInput, preApartments, preHistory>>
pageVars == <<lastSite, scraped, stopReason, iteration>>
delayVars == <<history, current_multiplier, clock, calls, lastCall>>
queryVars == <<config, lastDelay>>
dispatchVars == <<use_parallel_messages, lastDispatch>>
loopVars == <<running, lastIteration, data_file>>
ioVars == <<lastFetch, lastSend, lastStart, control, db>>
vars == <<diffVars, pageVars, delayVars, queryVars, dispatchVars, loopVars, ioVars>>

---------------------------------------------------------------------------
(* Bounds of the model *)

MaxRuns == 2          \* check_for_changes runs, or monitor iterations, in one behaviour
MaxHistRuns == 60     \* runs of the price-history specification
MaxSrcPages == 3      \* pages of a source in the pagination specification

Lens == {1, 2}        \* lengths of a fresh list handed to check_for_changes
Stamps == {1, 2}      \* source-side modification timestamps

Ids == {"a", "b"}
NoPrice == 0
Prices == {NoPrice, 1, 2}
RealPrices == Prices \ {NoPrice}

MaxCalls == 3         \* calls of the delay manager in one behaviour
MaxDbCalls == 3       \* calls of Database methods in one behaviour
MaxAdaptCalls == 6    \* log_event calls in the specification of the adaptation
MaxRemovals == 1      \* runs that remove the tracked listing, in one behaviour
Times == {0, 24, 25}  \* the hours the clock shows

(* Program constants *)
HistoryCap == 50      \* self.price_history[apt_id][-50:]
MaxPages == 50        \* scrape_all_pages(max_pages=50)
EventCap == 1000      \* self.history["events"][-1000:]
MinEvents == 5        \* if len(events) < 5
WindowHours == 24     \* timedelta(hours=24)
RiskyMinTotal == 3    \* if total < 3: continue
HoursPerDay == 24     \* datetime.hour, strftime("%Y-%m-%d")
MaxRetries == 3       \* fetch_page(max_retries=3)
RateLimitWait == 300  \* wait_time = 300 * (attempt + 1) * current_multiplier
ConnectionWait == 30  \* time.sleep(30 * (attempt + 1))
SendMaxRetries == 3   \* send_telegram_message(max_retries=3)
SliceSeconds == 60    \* time.sleep(min(60, remaining))
CooldownSeconds == 300 \* time.sleep(300)

---------------------------------------------------------------------------
(* Helpers for Python lists and dicts *)

\* seq[-n:]
LastN(seq, n) ==
    IF Len(seq) <= n THEN seq ELSE SubSeq(seq, Len(seq) - n + 1, Len(seq))

\* d[k] = v
DictSet(d, k, v) == [x \in DOMAIN d \cup {k} |-> IF x = k THEN v ELSE d[x]]

\* del d[k] for every k of ks
DictDel(d, ks) == [x \in DOMAIN d \ ks |-> d[x]]

EmptyDict == [x \in {} |-> 0]

SeqIds(S) == {S[i].id : i \in 1..Len(S)}

Count(S, id) == Cardinality({i \in 1..Len(S) : S[i].id = id})

\* Sequences over T whose length is in L
SeqsOf(T, L) == UNION {[1..n -> T] : n \in L}

---------------------------------------------------------------------------
(* Yad2Monitor.update_price_history *)

\* Mutant: the truncation keeps the first HistoryCap entries ([:50])
UpdatePriceHistoryKeepFirst(hist, apt_id, price, t) ==
    LET h == IF apt_id \in DOMAIN hist THEN hist[apt_id] ELSE <<>>
        h2 == Append(h, [price |-> price, timestamp |-> t])
    IN  DictSet(hist, apt_id, IF Len(h2) <= HistoryCap THEN h2 ELSE SubSeq(h2, 1, HistoryCap))

UpdatePriceHistory(hist, apt_id, price, t) ==
    LET h == IF apt_id \in DOMAIN hist THEN hist[apt_id] ELSE <<>>
        h2 == Append(h, [price |-> price, timestamp |-> t])
    IN  DictSet(hist, apt_id, LastN(h2, HistoryCap))

\* Yad2Monitor.get_last_price_change_date; 0 stands for None
GetLastPriceChangeDate(hist, apt_id) ==
    IF apt_id \notin DOMAIN hist \/ Len(hist[apt_id]) < 2
    THEN 0
    ELSE hist[apt_id][Len(hist[apt_id]) - 1].timestamp

---------------------------------------------------------------------------
(* Yad2Monitor.check_for_changes *)

\* Mutant: the comparison without the two truthiness tests
PriceChangedAnyDifference(old_price, current_price) == old_price # current_price

\* if old_price and current_price and old_price != current_price
PriceChanged(old_price, current_price) ==
    old_price # NoPrice /\ current_price # NoPrice /\ old_price # current_price

\* The record appended to price_changes_list.  change_pct = change / old_price * 100
\* is kept as the fraction <<change * 100, old_price>>.
ChangeInfo(st, apt) ==
    LET old_price == st.apts[apt.id].price
        change == apt.price - old_price
        d == GetLastPriceChangeDate(st.hist, apt.id)
    IN  [id |-> apt.id, old_price |-> old_price, new_price |-> apt.price,
         change |-> change, change_pct |-> <<change * 100, old_price>>,
         old_price_date |-> IF d # 0 THEN d ELSE st.apts[apt.id].last_seen,
         new_price_date |-> apt.last_seen]

\* One pass of the loop "for apt in new_apartments" over the element apt.
\* st = [apts, hist, cur, new, changes]
ProcessApt(st, apt) ==
    LET seen == apt.id \in DOMAIN st.apts
        changed == seen /\ PriceChanged(st.apts[apt.id].price, apt.price)
        stored == [price |-> apt.price, last_seen |-> apt.last_seen]
    IN  [apts |-> DictSet(st.apts, apt.id, stored),
         hist |-> IF changed \/ ~seen
                  THEN UpdatePriceHistory(st.hist, apt.id, apt.price, apt.last_seen)
                  ELSE st.hist,
         cur |-> st.cur \cup {apt.id},
         new |-> IF seen THEN st.new ELSE Append(st.new, apt),
         changes |-> IF changed THEN Append(st.changes, ChangeInfo(st, apt))
                     ELSE st.changes]

RECURSIVE DiffLoop(_, _, _)
DiffLoop(st, S, i) ==
    IF i > Len(S) THEN st ELSE DiffLoop(ProcessApt(st, S[i]), S, i + 1)

\* Mutant: the set difference the wrong way round
RemovedApartmentsReversed(st) == st.cur \ DOMAIN st.apts

\* removed_apartments = set(self.apartments.keys()) - self.current_check_apartments
RemovedApartments(st) == DOMAIN st.apts \ st.cur

\* Mutant: the history of a removed id is deleted with it
HistoryAfterRemovalDeleted(hist, removed) == DictDel(hist, removed)

\* for apt_id in removed_apartments: del self.apartments[apt_id], which leaves
\* self.price_history as it is
HistoryAfterRemoval(hist, removed) == hist

\* The whole of check_for_changes on the list S of [id, price, last_seen]
DiffResult(apts, hist, S) ==
    LET st == DiffLoop([apts |-> apts, hist |-> hist, cur |-> {},
                        new |-> <<>>, changes |-> <<>>], S, 1)
        removed == RemovedApartments(st)
    IN  [apts |-> DictDel(st.apts, removed),
         hist |-> HistoryAfterRemoval(st.hist, removed), cur |-> st.cur,
         new |-> st.new, changes |-> st.changes, removed |-> removed]

\* What parse_apartment stamps on an element: 'last_seen': datetime.now()
Stamp(S, t) == [i \in 1..Len(S) |-> [id |-> S[i].id, price |-> S[i].price, last_seen |-> t]]

Project(S) == [i \in 1..Len(S) |-> <<S[i].id, S[i].price>>]

\* The loop of check_for_changes left by an exception raised for the k-th
\* element: the elements before it are processed, nothing is removed
DiffInterrupted(apts, hist, S, k) ==
    LET st == DiffLoop([apts |-> apts, hist |-> hist, cur |-> {},
                        new |-> <<>>, changes |-> <<>>], SubSeq(S, 1, k - 1), 1)
    IN  [apts |-> st.apts, hist |-> st.hist, cur |-> st.cur,
         new |-> st.new, changes |-> st.changes, removed |-> {}]

\* The variables of the diff engine after a run on S with the result r
SetDiff(r, S) ==
    /\ now' = now + 1
    /\ runs' = runs + 1
    /\ apartments' = r.apts
    /\ price_history' = r.hist
    /\ current_check_apartments' = r.cur
    /\ diff' = [new |-> r.new, changes |-> r.changes, removed |-> r.removed]
    /\ lastInput' = Project(S)
    /\ sameInput' = (runs > 0 /\ Project(S) = lastInput)
    /\ preApartments' = apartments
    /\ preHistory' = price_history

---------------------------------------------------------------------------
(* Yad2Monitor.send_batch_telegram_messages *)

(* A batch is the messages 1..n, one for each new listing and each price   *)
(* change.  pool tells what the worker pool does: failAt = 0, every submit *)
(* succeeds; failAt = k > 0, the k-th executor.submit raises (no thread    *)
(* can be started; for k = 1 this is also a ThreadPoolExecutor that cannot *)
(* be created), and ran tells whether a worker started earlier took the    *)
(* k-th message off the queue all the same.  Leaving the with block waits  *)
(* for the messages submitted before.  error is the exception that left    *)
(* the with block: the RuntimeError "can't start new thread", another       *)
(* RuntimeError, or an exception of another class.                          *)
NoFailure == [failAt |-> 0, ran |-> FALSE, error |-> "none"]

PoolErrors == {"cant_start_thread", "runtime_error", "exception"}

Pools(n) ==
    {pl \in [failAt : 0..n, ran : BOOLEAN, error : PoolErrors \cup {"none"}] :
        /\ pl.ran => pl.failAt > 1
        /\ pl.error = "none" <=> pl.failAt = 0}

\* The messages the pool's workers sent
PoolBatch(n, pool) ==
    IF pool.failAt = 0 THEN 1..n
    ELSE 1..(pool.failAt - 1) \cup (IF pool.ran THEN {pool.failAt} ELSE {})

\* Mutant: the sequential loop sends the messages the pool had not accepted
SequentialBatchUnsubmitted(n, pool) == (pool.failAt + 1)..n

\* for msg in messages_to_send: self.send_single_telegram_message(msg)
SequentialBatch(n, pool) == 1..n

\* Mutant: a batch the pool sends whole sets the flag again
StaysParallelAfterSuccess(use_parallel, pool) == pool.failAt = 0

\* self.use_parallel_messages after the batch: every except clause clears it
StaysParallel(use_parallel, pool) == use_parallel /\ pool.failAt = 0

NoDispatch == [called |-> FALSE, raised |-> FALSE, n |-> 0, mode |-> "none", attempts |-> <<>>,
               error |-> "none"]

\* send_batch_telegram_messages on n messages.  attempts[i] is the number of
\* calls of send_single_telegram_message for message i.
SendBatch(use_parallel, n, pool) ==
    LET pooled == IF use_parallel THEN PoolBatch(n, pool) ELSE {}
        sequential == IF use_parallel /\ pool.failAt = 0 THEN {}
                      ELSE SequentialBatch(n, pool)
    IN  [use_parallel |-> StaysParallel(use_parallel, pool),
         record |-> [called |-> TRUE, raised |-> FALSE, n |-> n,
                     mode |-> IF ~use_parallel THEN "sequential"
                              ELSE IF pool.failAt = 0 THEN "parallel" ELSE "fallback",
                     attempts |-> [i \in 1..n |->
                                      (IF i \in pooled THEN 1 ELSE 0)
                                      + (IF i \in sequential THEN 1 ELSE 0)],
                     error |-> IF use_parallel THEN pool.error ELSE "none"]]

\* send_batch_telegram_messages left by an exception raised while it renders
\* the messages: nothing is sent
SendBatchRaised(use_parallel, n) ==
    [use_parallel |-> use_parallel,
     record |-> [called |-> TRUE, raised |-> TRUE, n |-> n, mode |-> "none",
                 attempts |-> [i \in 1..n |-> 0], error |-> "none"]]

SetDispatch(d) ==
    /\ use_parallel_messages' = d.use_parallel
    /\ lastDispatch' = d.record

\* The number of messages of a diff: if new_apartments_list or price_changes_list
Messages(r) == Len(r.new) + Len(r.changes)

\* check_for_changes on the fresh list S, the worker pool behaving as pool
CheckForChanges(S, pool) ==
    LET r == DiffResult(apartments, price_history, Stamp(S, now + 1))
    IN  /\ SetDiff(r, S)
        /\ pool \in Pools(Messages(r))
        /\ IF Messages(r) > 0
           THEN SetDispatch(SendBatch(use_parallel_messages, Messages(r), pool))
           ELSE /\ pool = NoFailure
                /\ SetDispatch([use_parallel |-> use_parallel_messages,
                                record |-> NoDispatch])

---------------------------------------------------------------------------
(* Yad2Monitor.scrape_all_pages *)

(* The listing source of one run is a sequence of pages.  A page is        *)
(* [ok, fail, items]: items are the listings the source holds on that      *)
(* page, each [id, price, ts] with ts the source-side modification time;   *)
(* ok says whether fetch_page returned the page's html, and when it did    *)
(* not, fail says why it returned None.  Past its last page the source     *)
(* serves a page without listings.  A listing parse_apartment rejects, or  *)
(* that has no price, is an item whose price is NoPrice.                   *)
PageAt(site, page) ==
    IF page <= Len(site) THEN site[page]
    ELSE [ok |-> TRUE, fail |-> "none", items |-> <<>>]

\* The events fetch_page logs for a page: "success" for a page answered with
\* status 200 at the first attempt; one "error" for a status that is neither
\* 200, 429 nor 5xx; one "rate_limit" for each of the max_retries = 3 attempts
\* answered with status 429.
FetchLog(pg) ==
    IF pg.ok THEN <<"success">>
    ELSE IF pg.fail = "rate_limit" THEN <<"rate_limit", "rate_limit", "rate_limit">>
    ELSE <<"error">>

\* if apt and apt['price'] and apt['link']
ValidApt(item) == item.price # NoPrice

RECURSIVE SelectValid(_)
SelectValid(items) ==
    IF items = <<>> THEN <<>>
    ELSE LET rest == SelectValid(Tail(items))
         IN  IF ValidApt(Head(items)) THEN <<Head(items)>> \o rest ELSE rest

\* Mutant: a page fetch_page returned nothing for is skipped (continue for break)
RECURSIVE ScrapeFromSkipsFailed(_, _, _, _, _)
ScrapeFromSkipsFailed(site, max_pages, page, all, pages) ==
    CASE page > max_pages ->
            [all |-> all, reason |-> "exhausted", page |-> page, fetched |-> page - 1,
             pages |-> pages]
      [] page <= max_pages /\ PageAt(site, page).ok /\ PageAt(site, page).items = <<>> ->
            [all |-> all, reason |-> "empty", page |-> page, fetched |-> page,
             pages |-> Append(pages, page)]
      [] page <= max_pages /\ PageAt(site, page).ok /\ PageAt(site, page).items # <<>>
           /\ SelectValid(PageAt(site, page).items) = <<>> ->
            [all |-> all, reason |-> "no_valid", page |-> page, fetched |-> page,
             pages |-> Append(pages, page)]
      [] OTHER ->
            CHOOSE out \in
                {ScrapeFromSkipsFailed(site, max_pages, next, found, fetched) :
                    next \in {page + 1},
                    found \in {all \o SelectValid(PageAt(site, page).items)},
                    fetched \in {Append(pages, page)}} : TRUE

\* The while loop of scrape_all_pages from `page` on, with all_apartments = all
\* and fetch_page called for `pages` so far.  The result names the list
\* returned, why and where the loop ended, the number of pages fetch_page was
\* called for, and those pages in the order of the calls.  In the last case
\* the loop goes round again: next, found and fetched are page, all_apartments
\* and the pages fetched then.
RECURSIVE ScrapeFrom(_, _, _, _, _)
ScrapeFrom(site, max_pages, page, all, pages) ==
    CASE page > max_pages ->
            [all |-> all, reason |-> "exhausted", page |-> page, fetched |-> page - 1,
             pages |-> pages]
      [] page <= max_pages /\ ~PageAt(site, page).ok ->
            [all |-> all, reason |-> "no_content", page |-> page, fetched |-> page,
             pages |-> Append(pages, page)]
      [] page <= max_pages /\ PageAt(site, page).ok /\ PageAt(site, page).items = <<>> ->
            [all |-> all, reason |-> "empty", page |-> page, fetched |-> page,
             pages |-> Append(pages, page)]
      [] page <= max_pages /\ PageAt(site, page).ok /\ PageAt(site, page).items # <<>>
           /\ SelectValid(PageAt(site, page).items) = <<>> ->
            [all |-> all, reason |-> "no_valid", page |-> page, fetched |-> page,
             pages |-> Append(pages, page)]
      [] OTHER ->
            CHOOSE out \in
                {ScrapeFrom(site, max_pages, next, found, fetched) :
                    next \in {page + 1},
                    found \in {all \o SelectValid(PageAt(site, page).items)},
                    fetched \in {Append(pages, page)}} : TRUE

ScrapeAllPages(site, max_pages) == ScrapeFrom(site, max_pages, 1, <<>>, <<>>)

\* The start time of an earlier run that a pagination pass reads: monitor
\* stores none and scrape_all_pages(base_url, max_pages) takes none
NoWatermark == -1
Watermark == NoWatermark

---------------------------------------------------------------------------
(* AdaptiveDelayManager *)

(* Times are whole hours.  A float is kept as a fraction <<n, d>> in       *)
(* lowest terms: the rates are quotients of event counts and the multiplier*)
(* is a product of 3/2, 6/5 and 9/10, so every comparison the code makes   *)
(* is decided exactly.                                                     *)
RECURSIVE GCD(_, _)
GCD(x, y) == IF y = 0 THEN x ELSE GCD(y, x % y)

Frac(n, d) == LET g == GCD(n, d) IN <<n \div g, d \div g>>
FracMul(f, n, d) == Frac(f[1] * n, f[2] * d)
FracLess(f, g) == f[1] * g[2] < g[1] * f[2]
FracMin(f, g) == IF FracLess(g, f) THEN g ELSE f
FracMax(f, g) == IF FracLess(f, g) THEN g ELSE f
One == <<1, 1>>

Kinds == {"success", "rate_limit", "block", "timeout", "error"}
ProblemKinds == {"rate_limit", "block"}
ZeroStats == [k \in Kinds |-> 0]

\* What load_history returns when there is no history file, or a corrupt one
DefaultHistory ==
    [events |-> <<>>, daily_stats |-> EmptyDict, hourly_stats |-> EmptyDict,
     current_strategy |-> [page_delay_multiplier |-> One,
                           cycle_delay_multiplier |-> One,
                           last_updated |-> -1,
                           reason |-> "Initial settings"]]

\* Mutant: the truncation keeps the first EventCap events ([:1000])
SaveHistoryKeepOldest(h) ==
    [h EXCEPT !.events = IF Len(@) <= EventCap THEN @ ELSE SubSeq(@, 1, EventCap)]

\* save_history: truncates the in-memory list, then writes the file.  The file
\* is written after every change of history, so it holds history.
SaveHistory(h) == [h EXCEPT !.events = LastN(@, EventCap)]

CountKind(evs, kinds) == Cardinality({i \in 1..Len(evs) : evs[i].type \in kinds})

\* Mutant: a ratio of exactly 0.2 counts as risky
FindRiskyHoursAtLeast(hourly_stats) ==
    {hr \in DOMAIN hourly_stats :
        LET stats == hourly_stats[hr]
            total == stats["success"] + stats["rate_limit"] + stats["block"]
                     + stats["timeout"] + stats["error"]
            problems == stats["block"] + stats["rate_limit"]
        IN  total >= RiskyMinTotal /\ problems * 5 >= total}

\* find_risky_hours: problems / total > 0.2 of the hours with total >= 3
FindRiskyHours(hourly_stats) ==
    {hr \in DOMAIN hourly_stats :
        LET stats == hourly_stats[hr]
            total == stats["success"] + stats["rate_limit"] + stats["block"]
                     + stats["timeout"] + stats["error"]
            problems == stats["block"] + stats["rate_limit"]
        IN  total >= RiskyMinTotal /\ problems * 5 > total}

\* Mutant: the increase for a high problem rate without its cap of 5.0
AdaptMultiplierUncapped(m, total, successes, problems) ==
    IF problems * 10 > 3 * total
    THEN [m |-> FracMul(m, 3, 2), reason |-> "high"]
    ELSE IF problems * 10 > total
    THEN [m |-> FracMin(<<3, 1>>, FracMul(m, 6, 5)), reason |-> "moderate"]
    ELSE IF problems * 20 < total /\ successes * 10 > 9 * total
    THEN [m |-> FracMax(<<1, 2>>, FracMul(m, 9, 10)), reason |-> "good"]
    ELSE [m |-> m, reason |-> "maintain"]

\* Mutant: the test for a moderate problem rate comes first
AdaptMultiplierModerateFirst(m, total, successes, problems) ==
    IF problems * 10 > total
    THEN [m |-> FracMin(<<3, 1>>, FracMul(m, 6, 5)), reason |-> "moderate"]
    ELSE IF problems * 10 > 3 * total
    THEN [m |-> FracMin(<<5, 1>>, FracMul(m, 3, 2)), reason |-> "high"]
    ELSE IF problems * 20 < total /\ successes * 10 > 9 * total
    THEN [m |-> FracMax(<<1, 2>>, FracMul(m, 9, 10)), reason |-> "good"]
    ELSE [m |-> m, reason |-> "maintain"]

\* The rule of analyze_and_adapt: problem_rate = problems / total compared with
\* 0.3, 0.1 and 0.05, success_rate = successes / total with 0.9
AdaptMultiplier(m, total, successes, problems) ==
    IF problems * 10 > 3 * total
    THEN [m |-> FracMin(<<5, 1>>, FracMul(m, 3, 2)), reason |-> "high"]
    ELSE IF problems * 10 > total
    THEN [m |-> FracMin(<<3, 1>>, FracMul(m, 6, 5)), reason |-> "moderate"]
    ELSE IF problems * 20 < total /\ successes * 10 > 9 * total
    THEN [m |-> FracMax(<<1, 2>>, FracMul(m, 9, 10)), reason |-> "good"]
    ELSE [m |-> m, reason |-> "maintain"]

\* recent_events of analyze_and_adapt at time t
RecentEvents(evs, t) == SelectSeq(evs, LAMBDA e : e.timestamp > t - WindowHours)

\* analyze_and_adapt at time t with self.history = h, self.current_multiplier = m.
\* recent is the number of recent events it counted, -1 when it returned before;
\* analysed says that analyze_and_adapt was called.
AnalyzeAndAdapt(h, m, t) ==
    LET recent == RecentEvents(h.events, t)
        total == Len(recent)
        successes == CountKind(recent, {"success"})
        problems == CountKind(recent, ProblemKinds)
        a == AdaptMultiplier(m, total, successes, problems)
    IN  IF Len(h.events) < MinEvents
        THEN [history |-> h, multiplier |-> m, recent |-> -1, analysed |-> TRUE]
        ELSE IF total = 0
        THEN [history |-> h, multiplier |-> m, recent |-> 0, analysed |-> TRUE]
        ELSE [history |->
                 SaveHistory([h EXCEPT !.current_strategy =
                     [page_delay_multiplier |-> a.m,
                      cycle_delay_multiplier |-> a.m,
                      last_updated |-> t,
                      reason |-> a.reason,
                      success_rate |-> Frac(successes, total),
                      problem_rate |-> Frac(problems, total),
                      risky_hours |-> FindRiskyHours(h.hourly_stats)]]),
              multiplier |-> a.m,
              recent |-> total,
              analysed |-> TRUE]

Bump(stats, key, kind) ==
    LET cur == IF key \in DOMAIN stats THEN stats[key] ELSE ZeroStats
    IN  DictSet(stats, key, IF kind \in DOMAIN cur
                            THEN [cur EXCEPT ![kind] = @ + 1] ELSE cur)

\* log_event up to and including its save_history
RecordEvent(h, kind, t) ==
    SaveHistory([h EXCEPT
        !.events = Append(@, [timestamp |-> t, type |-> kind,
                              hour |-> t % HoursPerDay,
                              weekday |-> (t \div HoursPerDay) % 7]),
        !.daily_stats = Bump(@, t \div HoursPerDay, kind),
        !.hourly_stats = Bump(@, t % HoursPerDay, kind)])

\* Mutant: log_event re-analyses after an event of any kind
LogEventResultAlwaysAnalyse(h, m, kind, t) == AnalyzeAndAdapt(RecordEvent(h, kind, t), m, t)

\* AdaptiveDelayManager.log_event at time t
LogEventResult(h, m, kind, t) ==
    LET h2 == RecordEvent(h, kind, t)
    IN  IF kind \in ProblemKinds
        THEN AnalyzeAndAdapt(h2, m, t)
        ELSE [history |-> h2, multiplier |-> m, recent |-> -1, analysed |-> FALSE]

\* The manager and the record of its calls, and both after one more call that
\* started from the Strategy `strategy` and the multiplier m and had the result r
Manager ==
    [history |-> history, multiplier |-> current_multiplier,
     calls |-> calls, lastCall |-> lastCall]

AfterCall(s, op, kind, r, strategy, m, t) ==
    [history |-> r.history, multiplier |-> r.multiplier, calls |-> s.calls + 1,
     lastCall |-> [op |-> op, kind |-> kind, recent |-> r.recent, time |-> t,
                   analysed |-> r.analysed, strategy |-> strategy, multiplier |-> m]]

AfterLogEvent(s, kind, t) ==
    AfterCall(s, "log_event", kind, LogEventResult(s.history, s.multiplier, kind, t),
              s.history.current_strategy, s.multiplier, t)

\* log_event called for each of kinds in turn; next is the manager after the
\* first of them and rest the kinds that follow
RECURSIVE LogAll(_, _, _)
LogAll(s, kinds, t) ==
    IF kinds = <<>>
    THEN s
    ELSE CHOOSE out \in {LogAll(next, rest, t) :
                             next \in {AfterLogEvent(s, Head(kinds), t)},
                             rest \in {Tail(kinds)}} : TRUE

NoDelay == [op |-> "none", value |-> <<0, 1>>]

SetManager(s) ==
    /\ history' = s.history
    /\ current_multiplier' = s.multiplier
    /\ calls' = s.calls
    /\ lastCall' = s.lastCall
    /\ lastDelay' = NoDelay
    /\ UNCHANGED <<clock, config>>

LogEvent(kind) == SetManager(AfterLogEvent(Manager, kind, clock))

\* A call of analyze_and_adapt on its own
AnalyzeCall ==
    SetManager(AfterCall(Manager, "analyze_and_adapt", "none",
                         AnalyzeAndAdapt(history, current_multiplier, clock),
                         history.current_strategy, current_multiplier, clock))

\* AdaptiveDelayManager.__init__ on the history file `file`:
\* self.current_multiplier = 1.0, then analyze_and_adapt
Constructed(file, n, t) ==
    AfterCall([calls |-> n], "init", "none", AnalyzeAndAdapt(file, One, t),
              file.current_strategy, One, t)

Construct(file) == SetManager(Constructed(file, calls, clock))

(* The history file AdaptiveDelayManager() finds is [kind, content]: there  *)
(* is none ("absent"), json.load raises on it ("unparseable"), it is JSON   *)
(* that is not a history, content being what json.load returns              *)
(* ("malformed"), or it is a history the program wrote ("history").        *)
\* load_history: the defaults unless the file exists and json.load returns
LoadHistory(file) ==
    IF file.kind \in {"absent", "unparseable"} THEN DefaultHistory ELSE file.content

\* events = self.history["events"] raises KeyError
AnalysisRaises(h) == "events" \notin DOMAIN h

\* The manager of the initial state was constructed on a history
NoStart == [kind |-> "history", raised |-> FALSE]

\* AdaptiveDelayManager() on the file: when analyze_and_adapt raises, so does
\* the constructor, and there is no manager
StartManager(file) ==
    IF AnalysisRaises(LoadHistory(file))
    THEN /\ lastStart' = [kind |-> file.kind, raised |-> TRUE]
         /\ UNCHANGED <<delayVars, queryVars>>
    ELSE /\ lastStart' = [kind |-> file.kind, raised |-> FALSE]
         /\ Construct(LoadHistory(file))

\* Time passes
AdvanceClock ==
    /\ \E t \in Times : t > clock /\ clock' = t
    /\ lastDelay' = NoDelay
    /\ UNCHANGED <<history, current_multiplier, calls, lastCall, config>>

\* self.base_page_delay (seconds), self.base_cycle_delay (minutes)
BasePageDelay == <<5, 15>>
BaseCycleDelay == <<60, 90>>

\* risky_hours = self.history["current_strategy"].get("risky_hours", [])
RiskyHours(h) ==
    IF "risky_hours" \in DOMAIN h.current_strategy
    THEN h.current_strategy.risky_hours ELSE {}

\* The bounds between which get_page_delay draws: base * multiplier, times 1.5
\* in a risky hour
PageDelayBounds(h, m, t) ==
    LET risky == (t % HoursPerDay) \in RiskyHours(h)
        Adjusted(base) == IF risky THEN FracMul(FracMul(m, base, 1), 3, 2)
                                   ELSE FracMul(m, base, 1)
    IN  <<Adjusted(BasePageDelay[1]), Adjusted(BasePageDelay[2])>>

\* Mutant: the bounds of get_cycle_delay without the risky-hour factor
CycleDelayBoundsStoredOnly(h, m, t) ==
    <<(BaseCycleDelay[1] * m[1] * 60) \div m[2], (BaseCycleDelay[2] * m[1] * 60) \div m[2]>>

\* The bounds between which get_cycle_delay draws: int(base * multiplier * 60),
\* then int(bound * 1.5) in a risky hour
CycleDelayBounds(h, m, t) ==
    LET risky == (t % HoursPerDay) \in RiskyHours(h)
        Adjusted(base) ==
            LET a == (base * m[1] * 60) \div m[2]
            IN  IF risky THEN (a * 3) \div 2 ELSE a
    IN  <<Adjusted(BaseCycleDelay[1]), Adjusted(BaseCycleDelay[2])>>

\* get_page_delay: random.uniform(adjusted_min, adjusted_max); the model draws
\* the two ends of the interval
GetPageDelay ==
    /\ \E v \in {PageDelayBounds(history, current_multiplier, clock)[i] : i \in {1, 2}} :
           lastDelay' = [op |-> "get_page_delay", value |-> v]
    /\ UNCHANGED <<delayVars, config, dispatchVars, loopVars, ioVars>>

\* Yad2Monitor.get_random_interval: the value of get_cycle_delay, which is
\* random.randint(adjusted_min, adjusted_max); the model draws the two ends
GetRandomInterval ==
    /\ \E v \in {CycleDelayBounds(history, current_multiplier, clock)[i] : i \in {1, 2}} :
           lastDelay' = [op |-> "get_random_interval", value |-> <<v, 1>>]
    /\ UNCHANGED <<delayVars, config, dispatchVars, loopVars, ioVars>>

---------------------------------------------------------------------------
(* Yad2Monitor.fetch_page *)

(* What one HTTP attempt meets: status 200 with the listings ("ok"), status *)
(* 200 with the 'Are you for real' interstitial ("block"), status 429,      *)
(* a status of 500 or more ("5xx"), any other status ("4xx"),               *)
(* requests.exceptions.Timeout, requests.exceptions.ConnectionError, or     *)
(* any other exception.                                                     *)
Outcomes == {"ok", "block", "429", "5xx", "4xx", "timeout", "connection", "exception"}

\* outcomes[i] is what the i-th attempt meets, the last one standing for the rest
OutcomeAt(outcomes, i) ==
    IF i <= Len(outcomes) THEN outcomes[i] ELSE outcomes[Len(outcomes)]

\* Mutant: a request timeout is logged as an error
LoggedKindTimeoutAsError(outcome) ==
    CASE outcome = "ok" -> "success"
      [] outcome = "block" -> "block"
      [] outcome = "429" -> "rate_limit"
      [] OTHER -> "error"

\* Mutant: the event is logged under the name of what the attempt met
LoggedKindOfOutcome(outcome) == outcome

\* The event_type fetch_page passes to log_event
LoggedKind(outcome) ==
    CASE outcome = "ok" -> "success"
      [] outcome = "block" -> "block"
      [] outcome = "429" -> "rate_limit"
      [] outcome = "timeout" -> "timeout"
      [] OTHER -> "error"

\* Mutant: another attempt follows the max_retries-th
AttemptsLeftOneMore(attempt) == attempt <= MaxRetries

\* for attempt in range(max_retries)
AttemptsLeft(attempt) == attempt < MaxRetries

\* Mutant: a status that is neither 200, 429 nor 5xx is retried
ContinuesAfterFatal(outcome, attempt) ==
    \/ outcome \in {"429", "block", "5xx", "4xx", "timeout", "connection"}
    \/ outcome = "exception" /\ attempt < MaxRetries - 1

\* The branches of fetch_page that end in continue
Continues(outcome, attempt) ==
    \/ outcome \in {"429", "block", "5xx", "timeout", "connection"}
    \/ outcome = "exception" /\ attempt < MaxRetries - 1

\* Mutant: the wait is computed from the multiplier read before log_event
CooldownStaleMultiplier(outcome, attempt, before, after, draw) ==
    IF outcome = "429" THEN FracMul(before, RateLimitWait * (attempt + 1), 1)
    ELSE IF outcome = "block" THEN FracMul(before, draw * (attempt + 1), 1)
    ELSE IF outcome = "connection" THEN <<ConnectionWait * (attempt + 1), 1>>
    ELSE <<0, 1>>

\* The seconds fetch_page sleeps after the attempt: 300 * (attempt + 1) *
\* current_multiplier after status 429, random.randint(120, 300) * (attempt + 1)
\* * current_multiplier after a block page, 30 * (attempt + 1) after a
\* ConnectionError.  before and after are self.delay_manager.current_multiplier
\* before and after the log_event of the attempt; draw is the random integer.
Cooldown(outcome, attempt, before, after, draw) ==
    IF outcome = "429" THEN FracMul(after, RateLimitWait * (attempt + 1), 1)
    ELSE IF outcome = "block" THEN FracMul(after, draw * (attempt + 1), 1)
    ELSE IF outcome = "connection" THEN <<ConnectionWait * (attempt + 1), 1>>
    ELSE <<0, 1>>

\* random.randint(120, 300): the model draws the two ends
BlockDraws == {120, 300}

\* The loop of fetch_page from `attempt` on (counted from 0) with the delay
\* manager s at time t.  steps records the attempts made, each with its outcome,
\* the event logged, whether log_event re-analysed, the multiplier before and
\* after log_event, and the sleep that followed; draws[i] is the random integer
\* the i-th attempt draws when it meets a block page.
RECURSIVE FetchFrom(_, _, _, _, _, _)
FetchFrom(s, outcomes, attempt, draws, t, steps) ==
    IF ~AttemptsLeft(attempt)
    THEN [content |-> FALSE, manager |-> s, steps |-> steps]
    ELSE LET outcome == OutcomeAt(outcomes, attempt + 1)
             logged == {AfterLogEvent(s, LoggedKind(outcome), t)}
         IN  CHOOSE out \in
                 {LET step == [attempt |-> attempt, outcome |-> outcome,
                               logged |-> next.lastCall.kind,
                               analysed |-> next.lastCall.analysed,
                               before |-> s.multiplier, after |-> next.multiplier,
                               cooldown |-> Cooldown(outcome, attempt, s.multiplier,
                                                     next.multiplier,
                                                     OutcomeAt(draws, attempt + 1))]
                  IN  IF Continues(outcome, attempt)
                      THEN FetchFrom(next, outcomes, attempt + 1, draws, t,
                                     Append(steps, step))
                      ELSE [content |-> outcome = "ok", manager |-> next,
                            steps |-> Append(steps, step)]
                  : next \in logged} : TRUE

FetchPage(s, outcomes, draws, t) == FetchFrom(s, outcomes, 0, draws, t, <<>>)

NoFetch == [page |-> 0, content |-> TRUE, steps |-> <<>>]

\* One pass of the while loop of scrape_all_pages as far as `if not html: break`:
\* fetch_page for the page after the last one, which returned content
FetchNextPage(outcomes, draws) ==
    LET r == FetchPage(Manager, outcomes, draws, clock)
    IN  /\ lastFetch.content
        /\ lastFetch.page < MaxPages
        /\ lastFetch' = [page |-> lastFetch.page + 1, content |-> r.content,
                         steps |-> r.steps]
        /\ SetManager(r.manager)

---------------------------------------------------------------------------
(* Yad2Monitor.send_telegram_message *)

(* What one POST to the Bot API meets: status 200, status 429, a status of  *)
(* 500 or more ("5xx"), any other status ("other"), a Timeout, a            *)
(* ConnectionError, or any other exception, among them the ValueError of    *)
(* int() on a Retry-After header that is not a number.                      *)
SendOutcomes == {"200", "429", "5xx", "other", "timeout", "connection", "exception"}

\* for attempt in range(max_retries)
SendAttemptsLeft(attempt) == attempt < SendMaxRetries

\* Mutant: a status that is neither 200, 429 nor 5xx is retried
SendContinuesAfterFatal(outcome, attempt) ==
    \/ outcome \in {"429", "5xx", "other", "timeout", "connection"}
    \/ outcome = "exception" /\ attempt < SendMaxRetries - 1

\* The branches of send_telegram_message that end in continue
SendContinues(outcome, attempt) ==
    \/ outcome \in {"429", "5xx", "timeout", "connection"}
    \/ outcome = "exception" /\ attempt < SendMaxRetries - 1

\* The loop of send_telegram_message from `attempt` on (counted from 0); tried
\* is what the attempts made so far met
RECURSIVE SendFrom(_, _, _)
SendFrom(outcomes, attempt, tried) ==
    IF ~SendAttemptsLeft(attempt)
    THEN [result |-> FALSE, tried |-> tried]
    ELSE LET outcome == OutcomeAt(outcomes, attempt + 1)
         IN  IF SendContinues(outcome, attempt)
             THEN SendFrom(outcomes, attempt + 1, Append(tried, outcome))
             ELSE [result |-> outcome = "200", tried |-> Append(tried, outcome)]

SendTelegramMessage(outcomes) == SendFrom(outcomes, 0, <<>>)

NoSend == [called |-> FALSE, result |-> FALSE, tried |-> <<>>]

SendMessage(outcomes) ==
    LET r == SendTelegramMessage(outcomes)
    IN  lastSend' = [called |-> TRUE, result |-> r.result, tried |-> r.tried]

---------------------------------------------------------------------------
(* One iteration of Yad2Monitor.monitor: scrape_all_pages, fetch_page      *)
(* logging its events with the delay manager, then, if the pass returned   *)
(* anything, check_for_changes and save_data.                              *)

\* The events logged for the pages 1..fetched of site
RECURSIVE PassLog(_, _, _)
PassLog(site, page, fetched) ==
    IF page > fetched THEN <<>>
    ELSE FetchLog(PageAt(site, page)) \o PassLog(site, page + 1, fetched)

\* What can interrupt an iteration: nothing; an exception raised while page 1
\* is parsed ("scrape"), in the loop of check_for_changes ("diff"), while the
\* messages are rendered ("dispatch"), or in the sleep that ends the iteration
\* ("sleep"); a KeyboardInterrupt during that sleep ("stop").
Faults == {"none", "scrape", "diff", "dispatch", "sleep", "stop"}

\* except Exception: log_event("error"), send_telegram_message, time.sleep(300)
Handler == <<"exception", "log_error", "notify_error", "cooldown">>

\* except KeyboardInterrupt: send_telegram_message, break
Stopped == <<"stop_signal", "notify_stopped">>

\* Mutant: the loop is left by any exception
LoopRunsUntilFailure(fault) == fault = "none"

\* Only the except KeyboardInterrupt clause has a break
LoopRuns(fault) == fault # "stop"

\* How the iteration ends after its sleep has begun
EndOfIteration(fault) ==
    IF fault = "stop" THEN Stopped ELSE IF fault = "sleep" THEN Handler ELSE <<>>

\* The events logged with the delay manager by the handler
HandlerLog(fault) == IF fault \in {"none", "stop"} THEN <<>> ELSE <<"error">>

\* save_data writes self.apartments and self.price_history
SaveData(apts, hist) == [apartments |-> apts, price_history |-> hist]

\* Mutant: the diff runs on whatever the pass returned
FoundApartmentsAlways(all) == TRUE

\* if apartments: an empty list is false
FoundApartments(all) == all # <<>>

SetLoop(fault, trace, file) ==
    /\ running' = LoopRuns(fault)
    /\ lastIteration' = [fault |-> fault, trace |-> trace]
    /\ data_file' = file

(* One iteration of the while True loop of monitor against the source site, *)
(* fault naming where an exception is raised, if anywhere.  r is the       *)
(* result of scrape_all_pages, S the stamped list and full the diff of a   *)
(* check_for_changes that runs to its end.                                 *)
MonitorIteration(site, fault) ==
    \E r \in {ScrapeAllPages(site, MaxPages)} :
    \E S \in {Stamp(r.all, now + 1)} :
    \E full \in {DiffResult(apartments, price_history, S)} :
        /\ iteration' = iteration + 1
        /\ UNCHANGED <<lastSite, ioVars>>
        /\ IF fault = "scrape"
           THEN /\ PageAt(site, 1).ok
                /\ SetLoop(fault, <<"scrape">> \o Handler, data_file)
                /\ scraped' = <<>>
                /\ stopReason' = [reason |-> "exception", page |-> 1, pages |-> <<1>>]
                /\ UNCHANGED <<diffVars, dispatchVars>>
                /\ SetManager(LogAll(Manager, FetchLog(PageAt(site, 1)) \o HandlerLog(fault),
                                     clock))
           ELSE /\ scraped' = Project(r.all)
                /\ stopReason' = [reason |-> r.reason, page |-> r.page, pages |-> r.pages]
                /\ IF ~FoundApartments(r.all)
                   THEN /\ fault \in {"none", "sleep", "stop"}
                        /\ SetLoop(fault, <<"scrape", "sleep">> \o EndOfIteration(fault), data_file)
                        /\ UNCHANGED diffVars
                        /\ SetDispatch([use_parallel |-> use_parallel_messages,
                                        record |-> NoDispatch])
                   ELSE IF fault = "diff"
                   THEN /\ SetLoop(fault, <<"scrape", "diff">> \o Handler, data_file)
                        /\ SetDispatch([use_parallel |-> use_parallel_messages,
                                        record |-> NoDispatch])
                        /\ \E k \in 1..Len(S) :
                               SetDiff(DiffInterrupted(apartments, price_history, S, k), S)
                   ELSE IF fault = "dispatch"
                   THEN /\ Messages(full) > 0
                        /\ SetLoop(fault, <<"scrape", "diff", "dispatch">> \o Handler, data_file)
                        /\ SetDiff(full, S)
                        /\ SetDispatch(SendBatchRaised(use_parallel_messages, Messages(full)))
                   ELSE /\ SetLoop(fault,
                                   <<"scrape", "diff">>
                                   \o (IF Messages(full) > 0 THEN <<"dispatch">> ELSE <<>>)
                                   \o <<"save", "sleep">> \o EndOfIteration(fault),
                                   SaveData(full.apts, full.hist))
                        /\ \E pool \in Pools(Messages(full)) : CheckForChanges(r.all, pool)
                /\ SetManager(LogAll(Manager,
                                     PassLog(site, 1, r.fetched) \o HandlerLog(fault), clock))

\* A pagination pass alone, over the source held in lastSite
Paginate ==
    /\ stopReason.reason = "none"
    /\ LET r == ScrapeAllPages(lastSite, MaxPages)
       IN  /\ scraped' = Project(r.all)
           /\ stopReason' = [reason |-> r.reason, page |-> r.page, pages |-> r.pages]
           /\ SetManager(LogAll(Manager, PassLog(lastSite, 1, r.fetched), clock))
    /\ UNCHANGED <<lastSite, iteration, diffVars, dispatchVars, loopVars, ioVars>>

---------------------------------------------------------------------------
(* The thread of Yad2Monitor.monitor *)

(* control.pc is where the thread is: at the top of the while loop ("top"), *)
(* in one of the phases inside the try block, in one of the steps of the    *)
(* except Exception handler, or out of the loop ("done").  The data the     *)
(* phases change is that of MonitorIteration; the try/except structure      *)
(* depends only on the position.  A stop signal is the KeyboardInterrupt    *)
(* that SIGINT raises in the thread, wherever it is.                        *)
TryPhases == {"fetch", "diff", "dispatch", "save", "sleep"}
HandlerPhases == {"log_error", "notify_error", "cooldown"}

NoControl ==
    [pc |-> "top", interval |-> 0, slept |-> 0, slice |-> 0, slices |-> 0,
     waited |-> 0, notes |-> <<>>, exit |-> "none", stopAt |-> "none"]

\* Mutant: the sleep is one time.sleep(remaining)
SliceLengthWhole(remaining) == remaining

\* min(60, remaining)
SliceLength(remaining) ==
    IF remaining < SliceSeconds THEN remaining ELSE SliceSeconds

\* time.sleep returns after the time asked for, or a little later
Overshoots == {0, 7}

\* interval = self.get_random_interval(): an integer of seconds between the
\* bounds of get_cycle_delay; the model draws the two ends and one in between
Intervals ==
    LET b == CycleDelayBounds(history, current_multiplier, clock)
    IN  {b[1], b[1] + 45, b[2]}

\* iteration += 1
BeginIteration ==
    /\ control.pc = "top"
    /\ iteration' = iteration + 1
    /\ control' = [control EXCEPT !.pc = "fetch"]
    /\ UNCHANGED <<lastSite, scraped, stopReason, delayVars, queryVars>>

\* The cycle sleep begins: sleep_start = time.time()
EnterSleep(interval) ==
    control' = [control EXCEPT !.pc = "sleep", !.interval = interval, !.slept = 0,
                               !.slice = 0, !.slices = 0]

\* The thread goes from one phase of the try block to the next: scrape_all_pages
\* returned apartments or none (found), check_for_changes has messages to send
\* or none (messages), and after save_data, or after a pass that found nothing,
\* the cycle sleep of interval seconds begins
NextPhase(found, messages, interval) ==
    /\ CASE control.pc = "fetch" /\ found ->
                 control' = [control EXCEPT !.pc = "diff"]
         [] control.pc = "fetch" /\ ~found -> EnterSleep(interval)
         [] control.pc = "diff" /\ messages ->
                 control' = [control EXCEPT !.pc = "dispatch"]
         [] control.pc = "diff" /\ ~messages ->
                 control' = [control EXCEPT !.pc = "save"]
         [] control.pc = "dispatch" ->
                 control' = [control EXCEPT !.pc = "save"]
         [] control.pc = "save" -> EnterSleep(interval)
         [] OTHER -> FALSE
    /\ UNCHANGED <<pageVars, delayVars, queryVars>>

\* One round of while time.time() - sleep_start < interval: time.sleep(min(60,
\* remaining)), which takes over seconds more than asked
SleepSlice(over) ==
    /\ control.pc = "sleep"
    /\ control.slept < control.interval
    /\ \E slice \in {SliceLength(control.interval - control.slept)} :
           control' = [control EXCEPT !.slice = slice, !.slept = @ + slice + over,
                                      !.slices = @ + 1]
    /\ UNCHANGED <<pageVars, delayVars, queryVars>>

\* The while condition fails: the try block ends and the loop starts over
WakeUp ==
    /\ control.pc = "sleep"
    /\ control.slept >= control.interval
    /\ control' = [control EXCEPT !.pc = "top"]
    /\ UNCHANGED <<pageVars, delayVars, queryVars>>

\* An exception other than KeyboardInterrupt is raised in the try block
RaiseInTry ==
    /\ control.pc \in TryPhases
    /\ control' = [control EXCEPT !.pc = "log_error"]
    /\ UNCHANGED <<pageVars, delayVars, queryVars>>

\* except Exception: log_event("error"), then send_telegram_message, then
\* time.sleep(300), after which the loop starts over
HandlerStep ==
    CASE control.pc = "log_error" ->
             /\ control' = [control EXCEPT !.pc = "notify_error"]
             /\ LogEvent("error")
             /\ UNCHANGED pageVars
      [] control.pc = "notify_error" ->
             /\ control' = [control EXCEPT !.pc = "cooldown",
                                           !.notes = Append(@, "error")]
             /\ UNCHANGED <<pageVars, delayVars, queryVars>>
      [] control.pc = "cooldown" ->
             /\ control' = [control EXCEPT !.pc = "top", !.waited = CooldownSeconds]
             /\ UNCHANGED <<pageVars, delayVars, queryVars>>
      [] OTHER -> FALSE

\* KeyboardInterrupt.  Raised in the try block it is caught by except
\* KeyboardInterrupt: the 'Monitor Stopped' message is sent and the loop is
\* left by break.  Raised in the except Exception handler it is inside no try
\* block and leaves monitor as an exception.
Interrupt ==
    /\ control.pc \in TryPhases \cup HandlerPhases
    /\ IF control.pc \in TryPhases
       THEN control' = [control EXCEPT !.pc = "done", !.exit = "break",
                                       !.stopAt = control.pc,
                                       !.notes = Append(@, "stopped")]
       ELSE control' = [control EXCEPT !.pc = "done", !.exit = "raised",
                                       !.stopAt = control.pc]
    /\ UNCHANGED <<pageVars, delayVars, queryVars>>

---------------------------------------------------------------------------
(* Database.get_connection (src/database.py) *)

(* Threads share one Database instance.  db.lock is the holder of           *)
(* self._write_lock or "free"; db.thread[t] is where thread t is: outside   *)
(* any method ("idle"), blocked in `with self._write_lock` ("waiting"), or  *)
(* in the body of a `with self.get_connection()` block ("inside"), having   *)
(* executed `wrote` statements on its connection; db.inner[t] counts the    *)
(* get_connection blocks the thread has entered and not left;              *)
(* db.committed is the number of statements committed to the file.          *)
Threads == {"loop", "dashboard"}

\* The methods of Database with a get_connection block, a writer called by the
\* run loop, two others, and a reader
Methods == {"upsert_apartment", "mark_apartments_inactive", "add_price_history",
            "get_apartment"}

\* The statements a method may execute in its block
Statements(method) == IF method = "get_apartment" THEN {0} ELSE {1, 2}

\* Mutant: upsert_apartment records the price through add_price_history
InnerCallNested(method) ==
    IF method = "upsert_apartment" THEN "add_price_history" ELSE "none"

\* The Database method a method calls inside its get_connection block: no
\* method calls one (upsert_apartment inserts the price row inline)
InnerCall(method) == "none"

IdleThread == [pc |-> "idle", method |-> "none", wrote |-> 0, inner |-> 0]

NoDb ==
    [lock |-> "free", thread |-> [t \in Threads |-> IdleThread], committed |-> 0,
     calls |-> 0, last |-> [thread |-> "none", how |-> "none", wrote |-> 0]]

\* A thread calls a method: it arrives at `with self._write_lock`
CallMethod(t, method) ==
    /\ db.thread[t].pc = "idle"
    /\ db.calls < MaxDbCalls
    /\ db' = [db EXCEPT !.thread[t] = [pc |-> "waiting", method |-> method,
                                       wrote |-> 0, inner |-> 0],
                        !.calls = @ + 1]

\* threading.Lock.acquire, then sqlite3.connect and the PRAGMA: the thread is
\* in the block, or (connects = FALSE) sqlite3 raised and the with statement
\* released the lock
EnterBlock(t, connects) ==
    /\ db.thread[t].pc = "waiting"
    /\ db.lock = "free"
    /\ IF connects
       THEN db' = [db EXCEPT !.lock = t, !.thread[t].pc = "inside",
                             !.thread[t].inner = @ + 1]
       ELSE db' = [db EXCEPT !.thread[t] = IdleThread,
                             !.last = [thread |-> t, how |-> "connect_failed",
                                       wrote |-> 0]]

\* The body of the block: the method's statements on the connection, and the
\* Database method it calls from there, if any, which arrives at
\* `with self._write_lock` with the lock still held
RunBlock(t, n) ==
    /\ db.thread[t].pc = "inside"
    /\ db.thread[t].wrote = 0
    /\ n \in Statements(db.thread[t].method)
    /\ n > 0 \/ InnerCall(db.thread[t].method) # "none"
    /\ IF InnerCall(db.thread[t].method) = "none"
       THEN db' = [db EXCEPT !.thread[t].wrote = n]
       ELSE db' = [db EXCEPT !.thread[t].wrote = n,
                             !.thread[t].pc = "waiting",
                             !.thread[t].method = InnerCall(db.thread[t].method)]

\* The block is left.  Normally (raises = FALSE): conn.commit(), conn.close(),
\* the lock is released.  By an exception of the body, or of conn.commit():
\* conn.rollback(), raise, conn.close(), the lock is released.
LeaveBlock(t, raises) ==
    /\ db.thread[t].pc = "inside"
    /\ db' = [db EXCEPT !.lock = "free",
                        !.thread[t] = IdleThread,
                        !.committed = IF raises THEN @ ELSE @ + db.thread[t].wrote,
                        !.last = [thread |-> t,
                                  how |-> IF raises THEN "rollback" ELSE "commit",
                                  wrote |-> db.thread[t].wrote]]

---------------------------------------------------------------------------
(* Specifications *)

Items == [id : Ids, price : Prices]
FreshLists == SeqsOf(Items, Lens)

DiffInit ==
    /\ apartments = EmptyDict
    /\ price_history = EmptyDict
    /\ current_check_apartments = {}
    /\ diff = [new |-> <<>>, changes |-> <<>>, removed |-> {}]
    /\ now = 0
    /\ runs = 0
    /\ lastInput = <<>>
    /\ sameInput = FALSE
    /\ preApartments = EmptyDict
    /\ preHistory = EmptyDict

PageInit ==
    /\ lastSite = <<>>
    /\ scraped = <<>>
    /\ stopReason = [reason |-> "none", page |-> 0, pages |-> <<>>]
    /\ iteration = 0

\* Yad2Monitor(token, chat_id) with the default interval bounds of 10 and 30
\* minutes, and with those __main__ passes when the environment sets none
DefaultConfig == [min_interval |-> 10 * 60, max_interval |-> 30 * 60]
Configs == {DefaultConfig, [min_interval |-> 60 * 60, max_interval |-> 90 * 60]}

QueryInit ==
    /\ config = DefaultConfig
    /\ lastDelay = NoDelay

\* self.use_parallel_messages = True; load_data finds no files
LoopInit ==
    /\ use_parallel_messages = TRUE
    /\ lastDispatch = NoDispatch
    /\ running = TRUE
    /\ lastIteration = [fault |-> "none", trace |-> <<>>]
    /\ data_file = [apartments |-> EmptyDict, price_history |-> EmptyDict]

IoInit ==
    /\ lastFetch = NoFetch
    /\ lastSend = NoSend
    /\ lastStart = NoStart
    /\ control = NoControl
    /\ db = NoDb

\* AdaptiveDelayManager() when there is no history file
DelayInit ==
    /\ clock = 0
    /\ calls = 0
    /\ LET s == Constructed(DefaultHistory, -1, 0)
       IN  /\ history = s.history
           /\ current_multiplier = s.multiplier
           /\ lastCall = s.lastCall

\* Yad2Monitor() on a fresh installation
Init == DiffInit /\ PageInit /\ DelayInit /\ QueryInit /\ LoopInit /\ IoInit

\* check_for_changes called with any non-empty fresh list
DiffRun ==
    /\ runs < MaxRuns
    /\ \E S \in FreshLists : CheckForChanges(S, NoFailure)
    /\ UNCHANGED <<pageVars, delayVars, queryVars, loopVars, ioVars>>

\* A page the fetch failed for, or a page of at most one listing
FailKinds == {"error", "rate_limit"}
FailedPages == [ok : {FALSE}, fail : FailKinds, items : {<<>>}]
Pages(items) == FailedPages \cup [ok : {TRUE}, fail : {"none"}, items : SeqsOf(items, {0, 1})]

\* The run loop against any listing source of at most two pages
Sites == SeqsOf(Pages([id : Ids, price : Prices, ts : {1}]), 0..2)

MonitorRun ==
    /\ running
    /\ iteration < MaxRuns
    /\ \E site \in Sites, fault \in Faults : MonitorIteration(site, fault)

Next == MonitorRun
Spec == Init /\ [][Next]_vars

\* One pagination pass over any source of at most MaxSrcPages pages, one
\* listing a page, sorted newest first.  Here a page the fetch failed for
\* still holds its listing at the source.
SourceListings(site) ==
    UNION {{site[p].items[i] : i \in 1..Len(site[p].items)} : p \in 1..Len(site)}

NewestFirst(site) ==
    \A p, q \in 1..Len(site) : p < q =>
        \A i \in 1..Len(site[p].items), j \in 1..Len(site[q].items) :
            site[p].items[i].ts >= site[q].items[j].ts

SourcePages ==
    {pg \in [ok : BOOLEAN, fail : {"none", "error"},
             items : SeqsOf([id : Ids, price : {NoPrice, 1}, ts : Stamps], {1})] :
        pg.ok <=> pg.fail = "none"}

SortedSites == {site \in SeqsOf(SourcePages, 0..MaxSrcPages) : NewestFirst(site)}

\* A source of more than max_pages pages, a valid listing on each
FullSite ==
    [p \in 1..(MaxPages + 1) |->
        [ok |-> TRUE, fail |-> "none", items |-> <<[id |-> "a", price |-> 1, ts |-> 1]>>]]

InitPaginate ==
    /\ DiffInit
    /\ DelayInit
    /\ QueryInit
    /\ LoopInit
    /\ IoInit
    /\ lastSite \in SortedSites \cup {FullSite}
    /\ scraped = <<>>
    /\ stopReason = [reason |-> "none", page |-> 0, pages |-> <<>>]
    /\ iteration = 0

NextPaginate == Paginate
SpecPaginate == InitPaginate /\ [][NextPaginate]_vars

NextDiff == DiffRun
SpecDiff == Init /\ [][NextDiff]_vars

\* check_for_changes with its dispatch, whatever the worker pool does
DispatchRun ==
    /\ runs < MaxRuns
    /\ \E S \in FreshLists, pool \in Pools(2) : CheckForChanges(S, pool)
    /\ UNCHANGED <<pageVars, delayVars, queryVars, loopVars, ioVars>>

\* The run loop against a source of one page
LoopRun ==
    /\ running
    /\ iteration < MaxRuns
    /\ \E site \in SeqsOf(Pages([id : {"a"}, price : Prices, ts : {1}]), {1}),
          fault \in Faults : MonitorIteration(site, fault)

NextLoop == LoopRun
SpecLoop == Init /\ [][NextLoop]_vars

\* The loop is a single thread in while True: an iteration that can start does
SpecLoopFair == SpecLoop /\ WF_vars(NextLoop)

NextDispatch == DispatchRun
SpecDispatch == Init /\ [][NextDispatch]_vars

\* The thread of monitor, phase by phase
ControlStep ==
    \/ iteration < MaxRuns /\ BeginIteration
    \/ \E found \in BOOLEAN, messages \in BOOLEAN, interval \in Intervals :
           NextPhase(found, messages, interval)
    \/ \E over \in Overshoots : SleepSlice(over)
    \/ WakeUp
    \/ RaiseInTry
    \/ HandlerStep
    \/ Interrupt

NextControl ==
    /\ ControlStep
    /\ UNCHANGED <<diffVars, dispatchVars, loopVars, lastFetch, lastSend, lastStart, db>>

SpecControl == Init /\ [][NextControl]_vars

\* The threads that use the Database instance
DbStep ==
    \E t \in Threads :
        \/ \E method \in Methods : CallMethod(t, method)
        \/ \E connects \in BOOLEAN : EnterBlock(t, connects)
        \/ \E n \in 0..2 : RunBlock(t, n)
        \/ \E raises \in BOOLEAN : LeaveBlock(t, raises)

NextDb ==
    /\ DbStep
    /\ UNCHANGED <<diffVars, pageVars, delayVars, queryVars, dispatchVars, loopVars,
                   lastFetch, lastSend, lastStart, control>>

SpecDb == Init /\ [][NextDb]_vars

\* A tracked listing whose price changes on every run
PriceChangingRun ==
    /\ runs < MaxHistRuns
    /\ \E p \in RealPrices :
        /\ "a" \in DOMAIN apartments => apartments["a"].price # p
        /\ CheckForChanges(<<[id |-> "a", price |-> p]>>, NoFailure)
    /\ UNCHANGED <<pageVars, delayVars, queryVars, loopVars, ioVars>>

NextHistory == PriceChangingRun
SpecHistory == Init /\ [][NextHistory]_vars

\* A run in which the tracked listing "a" is gone from the source, which lists
\* "b" instead: "a" is removed.  "b" is new in every such run, so the length of
\* its price history counts them.
RemovingRun ==
    /\ runs < MaxHistRuns
    /\ "a" \in DOMAIN apartments
    /\ IF "b" \in DOMAIN price_history
       THEN Len(price_history["b"]) < MaxRemovals ELSE TRUE
    /\ CheckForChanges(<<[id |-> "b", price |-> 1]>>, NoFailure)
    /\ UNCHANGED <<pageVars, delayVars, queryVars, loopVars, ioVars>>

\* A listing that changes its price, disappears and comes back
NextChurn == PriceChangingRun \/ RemovingRun
SpecChurn == Init /\ [][NextChurn]_vars

\* The delay manager.  It starts on no history file, or on the file an earlier
\* process left after logging the events of one of PriorLogs at hour 0:
\* nothing, four successes, or six successes and three blocks.
\* calls counts the calls that follow the construction.
PriorLogs ==
    {<<>>,
     <<"success", "success", "success", "success">>,
     <<"success", "success", "success", "success", "success", "success",
       "block", "block", "block">>}
HistoryFiles ==
    {LogAll(Constructed(DefaultHistory, 0, 0), kinds, 0).history : kinds \in PriorLogs}

ManagerInit ==
    /\ clock = 0
    /\ calls = 0
    /\ \E file \in HistoryFiles :
          LET s == Constructed(file, -1, 0)
          IN  /\ history = s.history
              /\ current_multiplier = s.multiplier
              /\ lastCall = s.lastCall

InitDelay == DiffInit /\ PageInit /\ ManagerInit /\ QueryInit /\ LoopInit /\ IoInit

LogStep ==
    /\ calls < MaxCalls
    /\ \E kind \in Kinds : LogEvent(kind)
    /\ UNCHANGED <<diffVars, pageVars, dispatchVars, loopVars, ioVars>>

AnalyzeStep ==
    calls < MaxCalls /\ AnalyzeCall /\ UNCHANGED <<diffVars, pageVars, dispatchVars, loopVars, ioVars>>

\* The process is restarted: a new AdaptiveDelayManager loads the file
RestartStep ==
    calls < MaxCalls /\ Construct(history) /\ UNCHANGED <<diffVars, pageVars, dispatchVars, loopVars, ioVars>>

ClockStep == AdvanceClock /\ UNCHANGED <<diffVars, pageVars, dispatchVars, loopVars, ioVars>>

NextDelay == LogStep \/ AnalyzeStep \/ RestartStep \/ ClockStep
SpecDelay == InitDelay /\ [][NextDelay]_vars

\* A longer life of one delay manager: fetches that succeed or are blocked,
\* while time passes
AdaptStep ==
    /\ calls < MaxAdaptCalls
    /\ \E kind \in {"success", "block"} : LogEvent(kind)
    /\ UNCHANGED <<diffVars, pageVars, dispatchVars, loopVars, ioVars>>

NextAdapt == AdaptStep \/ ClockStep
SpecAdapt == InitDelay /\ [][NextAdapt]_vars

\* The delay manager on the file an earlier process left after logging n
\* events at hour 0, an error and then successes: log_event analyses after
\* none of them, so the Strategy is the initial one
LongHistory(n) ==
    [events |-> [i \in 1..n |->
                    [timestamp |-> 0, type |-> IF i = 1 THEN "error" ELSE "success",
                     hour |-> 0, weekday |-> 0]],
     daily_stats |-> DictSet(EmptyDict, 0,
                             [ZeroStats EXCEPT !["error"] = 1, !["success"] = n - 1]),
     hourly_stats |-> DictSet(EmptyDict, 0,
                              [ZeroStats EXCEPT !["error"] = 1, !["success"] = n - 1]),
     current_strategy |-> DefaultHistory.current_strategy]

InitEvents ==
    /\ DiffInit /\ PageInit /\ QueryInit /\ LoopInit /\ IoInit
    /\ clock = 0
    /\ calls = 0
    /\ \E n \in {EventCap - 1, EventCap} :
          LET s == Constructed(LongHistory(n), -1, 0)
          IN  /\ history = s.history
              /\ current_multiplier = s.multiplier
              /\ lastCall = s.lastCall

NextEvents == LogStep
SpecEvents == InitEvents /\ [][NextEvents]_vars

\* fetch_page for the pages of one pagination pass, whatever its attempts meet
FetchStep ==
    /\ calls < MaxCalls
    /\ \E outcomes \in SeqsOf(Outcomes, {MaxRetries}),
          draws \in SeqsOf(BlockDraws, {MaxRetries}) :
           FetchNextPage(outcomes, draws)
    /\ UNCHANGED <<diffVars, pageVars, dispatchVars, loopVars, lastSend, lastStart, control, db>>

NextFetch == FetchStep
SpecFetch == InitDelay /\ [][NextFetch]_vars

\* send_telegram_message, whatever its attempts meet
SendStep ==
    /\ \E outcomes \in SeqsOf(SendOutcomes, {SendMaxRetries}) : SendMessage(outcomes)
    /\ UNCHANGED <<diffVars, pageVars, delayVars, queryVars, dispatchVars, loopVars,
                   lastFetch, lastStart, control, db>>

NextSend == SendStep
SpecSend == Init /\ [][NextSend]_vars

\* The process starts on any history file, and the manager it constructed is
\* used
StartFiles ==
    {[kind |-> "absent", content |-> EmptyDict],
     [kind |-> "unparseable", content |-> EmptyDict],
     [kind |-> "malformed", content |-> EmptyDict]}
    \cup {[kind |-> "history", content |-> h] : h \in HistoryFiles}

StartStep ==
    /\ calls < MaxCalls
    /\ \E file \in StartFiles : StartManager(file)
    /\ UNCHANGED <<diffVars, pageVars, dispatchVars, loopVars, lastFetch, lastSend, control, db>>

UseStep == ~lastStart.raised /\ (LogStep \/ AnalyzeStep \/ ClockStep)

NextStart == StartStep \/ UseStep
SpecStart == InitDelay /\ [][NextStart]_vars

\* The delay manager and the delays asked of it, under either configuration
InitQuery ==
    /\ DiffInit
    /\ PageInit
    /\ ManagerInit
    /\ config \in Configs
    /\ lastDelay = NoDelay
    /\ LoopInit
    /\ IoInit

PageDelayStep == GetPageDelay /\ UNCHANGED <<diffVars, pageVars>>

IntervalStep == GetRandomInterval /\ UNCHANGED <<diffVars, pageVars>>

NextQuery == LogStep \/ AnalyzeStep \/ ClockStep \/ PageDelayStep \/ IntervalStep
SpecQuery == InitQuery /\ [][NextQuery]_vars

---------------------------------------------------------------------------
(* Vocabulary of the claims about one check_for_changes run *)

InputIds == {lastInput[i][1] : i \in 1..Len(lastInput)}

\* The price of the last occurrence of id in the fresh list (last wins)
FreshPrice(id) ==
    LET last == CHOOSE i \in 1..Len(lastInput) :
                    /\ lastInput[i][1] = id
                    /\ \A j \in (i + 1)..Len(lastInput) : lastInput[j][1] # id
    IN  lastInput[last][2]

Occurrences(id) == {i \in 1..Len(lastInput) : lastInput[i][1] = id}

HistLen(hist, id) == IF id \in DOMAIN hist THEN Len(hist[id]) ELSE 0

ScrapedIds == {scraped[i][1] : i \in 1..Len(scraped)}

---------------------------------------------------------------------------
(* C1: a run whose pagination pass was aborted, fetch_page returning no    *)
(* content for a page k > 1, removes no previously active listing: what    *)
(* the following check_for_changes classifies Removed is empty.            *)
C1_AbortedPassRemovesNothing ==
    (stopReason.reason = "no_content" /\ stopReason.page > 1) => diff.removed = {}

(* C2: after construction and after every log_event or analyze_and_adapt  *)
(* call the multiplier in effect and the multipliers of the Strategy lie   *)
(* in [0.5, 5.0].                                                          *)
InRange(m) == ~FracLess(m, <<1, 2>>) /\ ~FracLess(<<5, 1>>, m)

C2_MultiplierInRange ==
    /\ InRange(current_multiplier)
    /\ InRange(history.current_strategy.page_delay_multiplier)
    /\ InRange(history.current_strategy.cycle_delay_multiplier)

\* An analysis raised the multiplier from 3.375 and the cap cut it to 5.0
C2_Witness ==
    /\ lastCall.recent > 0
    /\ lastCall.multiplier = <<27, 8>>
    /\ current_multiplier = <<5, 1>>
    /\ history.current_strategy.page_delay_multiplier = <<5, 1>>

(* C3: the pagination pass over a source sorted newest first returns every *)
(* source listing whose modification time is at or after the watermark W,  *)
(* for every W.  Stated for the listings that parse as valid, of a source  *)
(* every page of which is fetched.                                         *)
C3_NoNewerEntityOmitted ==
    (stopReason.reason # "none" /\ \A p \in 1..Len(lastSite) : lastSite[p].ok) =>
        \A W \in Stamps : \A e \in SourceListings(lastSite) :
            (ValidApt(e) /\ e.ts >= W) => e.id \in ScrapedIds

(* C4: in one run every observed id is one of New, PriceChanged or         *)
(* unchanged and never two of them, nor PriceChanged twice, also when the  *)
(* id occurs twice in the fresh list; every previously active id is either *)
(* observed or Removed.                                                    *)
C4_AccountedExactlyOnce ==
    runs > 0 =>
        /\ \A id \in InputIds : Count(diff.new, id) + Count(diff.changes, id) <= 1
        /\ \A id \in DOMAIN preApartments : (id \in InputIds) # (id \in diff.removed)

(* C5: a run on the same fresh list as the run before it reports no New,   *)
(* no PriceChanged and no Removed and leaves the active map's key set and  *)
(* every price history as they were.                                       *)
C5_DiffIdempotent ==
    sameInput =>
        /\ diff.new = <<>> /\ diff.changes = <<>> /\ diff.removed = {}
        /\ DOMAIN apartments = DOMAIN preApartments
        /\ price_history = preHistory

(* C6: the run reports the reference diff of the prior active map P and    *)
(* the fresh list S: New are the ids of S not in P, PriceChanged the ids   *)
(* of both whose stored and fresh prices are non-null and differ, with     *)
(* the stored price as old price and the difference as change, Removed the *)
(* ids of P not in S.                                                      *)
C6_ReferenceDiff ==
    runs > 0 =>
        /\ SeqIds(diff.new) = InputIds \ DOMAIN preApartments
        /\ {<<diff.changes[i].id, diff.changes[i].old_price, diff.changes[i].new_price,
              diff.changes[i].change>> : i \in 1..Len(diff.changes)}
           = {<<id, preApartments[id].price, FreshPrice(id),
                FreshPrice(id) - preApartments[id].price>> :
                  id \in {x \in DOMAIN preApartments \cap InputIds :
                            /\ preApartments[x].price # NoPrice
                            /\ FreshPrice(x) # NoPrice
                            /\ preApartments[x].price # FreshPrice(x)}}
        /\ diff.removed = DOMAIN preApartments \ InputIds

(* C7: after every run the active map's keys are exactly the ids observed  *)
(* in the run, each stored listing is the run's (last) observation of it,  *)
(* stamped with the run's time also when its price is unchanged, and the   *)
(* ids classified Removed are the previously active ids not observed.      *)
C7_ActiveMapIsLatestSnapshot ==
    runs > 0 =>
        /\ DOMAIN apartments = InputIds
        /\ \A id \in InputIds :
               apartments[id] = [price |-> FreshPrice(id), last_seen |-> now]
        /\ diff.removed = DOMAIN preApartments \ InputIds

\* A listing was removed by the second run while another one, seen again at
\* the same price, had its last_seen advanced
C7_Witness ==
    /\ runs = 2
    /\ diff.removed # {}
    /\ \E id \in DOMAIN apartments \cap DOMAIN preApartments :
           /\ apartments[id].price = preApartments[id].price
           /\ apartments[id].last_seen > preApartments[id].last_seen

(* C8: a price history never holds more than 50 entries, and the entry of  *)
(* a price-changing run is appended at its end; appended to a full history *)
(* it drops the oldest entry and keeps the others in order.                *)
C8_HistoryCapFIFO ==
    \A id \in DOMAIN price_history :
        LET h == price_history[id]
        IN  /\ Len(h) <= HistoryCap
            /\ (id \in DOMAIN preHistory /\ Count(diff.changes, id) = 1) =>
                   LET o == preHistory[id]
                       e == [price |-> apartments[id].price, timestamp |-> now]
                   IN  IF Len(o) = HistoryCap
                       THEN h = Tail(o) \o <<e>>
                       ELSE h = Append(o, e)

\* The 51st and later entries were appended to a full history
C8_Witness ==
    /\ runs > HistoryCap + 1
    /\ "a" \in DOMAIN preHistory
    /\ Len(preHistory["a"]) = HistoryCap
    /\ Len(price_history["a"]) = HistoryCap
    /\ price_history["a"][1] = preHistory["a"][2]

Analysed ==
    \/ lastCall.op \in {"init", "analyze_and_adapt"}
    \/ lastCall.op = "log_event" /\ lastCall.kind \in ProblemKinds

C10_FewRecentEventsLeaveStrategy ==
    (Analysed /\ Len(RecentEvents(history.events, lastCall.time)) < MinEvents) =>
        /\ history.current_strategy = lastCall.strategy
        /\ current_multiplier = lastCall.multiplier

---------------------------------------------------------------------------
(* Vocabulary of the claims about the delay manager *)

\* The events of the trailing 24 hours at the time of the last call
RecentAtLastCall == RecentEvents(history.events, lastCall.time)

EventsOfHour(hr) == SelectSeq(history.events, LAMBDA e : e.hour = hr)

(* C11: an analysis that proceeds sets the multiplier to the first match   *)
(* of the rule on the rates of the trailing 24 hours: problemRate > 0.30   *)
(* gives min(5.0, m*1.5); else problemRate > 0.10 gives min(3.0, m*1.2);   *)
(* else problemRate < 0.05 and successRate > 0.90 gives max(0.5, m*0.9);   *)
(* otherwise m; and stores it in the Strategy.                             *)
C11_RuleFirstMatch ==
    lastCall.recent > 0 =>
        LET total == Len(RecentAtLastCall)
            problemRate == Frac(CountKind(RecentAtLastCall, {"block", "rate_limit"}), total)
            successRate == Frac(CountKind(RecentAtLastCall, {"success"}), total)
            m == lastCall.multiplier
            expected ==
                IF FracLess(<<3, 10>>, problemRate)
                THEN FracMin(<<5, 1>>, FracMul(m, 3, 2))
                ELSE IF FracLess(<<1, 10>>, problemRate)
                THEN FracMin(<<3, 1>>, FracMul(m, 6, 5))
                ELSE IF FracLess(problemRate, <<1, 20>>) /\ FracLess(<<9, 10>>, successRate)
                THEN FracMax(<<1, 2>>, FracMul(m, 9, 10))
                ELSE m
        IN  /\ lastCall.recent = total
            /\ current_multiplier = expected
            /\ history.current_strategy.page_delay_multiplier = expected
            /\ history.current_strategy.cycle_delay_multiplier = expected

\* 10 recent events with 4 blocks: the multiplier became 1.5 times the previous
C11_Witness ==
    /\ lastCall.recent = 10
    /\ CountKind(RecentAtLastCall, {"block"}) = 4
    /\ current_multiplier = FracMul(lastCall.multiplier, 3, 2)

(* C12: log_event(kind) appends one event and adds one to the daily and    *)
(* the hourly count of its kind, for every kind; it calls analyze_and_adapt*)
(* if and only if kind is rate_limit or block, and for the other kinds     *)
(* leaves the Strategy and the multiplier as they were.                    *)
C12_LogEventContract ==
    [][(calls' = calls + 1 /\ lastCall'.op = "log_event") =>
          LET kind == lastCall'.kind
              t == lastCall'.time
              day == t \div 24
              hr == t % 24
              Old(stats, key) == IF key \in DOMAIN stats THEN stats[key][kind] ELSE 0
          IN  /\ Len(history'.events) = Len(history.events) + 1
              /\ SubSeq(history'.events, 1, Len(history.events)) = history.events
              /\ history'.events[Len(history'.events)].type = kind
              /\ history'.events[Len(history'.events)].timestamp = t
              /\ history'.daily_stats[day][kind] = Old(history.daily_stats, day) + 1
              /\ history'.hourly_stats[hr][kind] = Old(history.hourly_stats, hr) + 1
              /\ lastCall'.analysed <=> kind \in {"rate_limit", "block"}
              /\ kind \in {"success", "timeout", "error"} =>
                     /\ history'.current_strategy = history.current_strategy
                     /\ current_multiplier' = current_multiplier]_vars

\* An event that is no problem was logged where an analysis would have changed
\* the multiplier
C12_Witness ==
    /\ lastCall.op = "log_event"
    /\ lastCall.kind \in {"success", "timeout", "error"}
    /\ ~lastCall.analysed
    /\ AnalyzeAndAdapt(history, current_multiplier, lastCall.time).multiplier
           # current_multiplier

(* C13: the risky hours an analysis stores are exactly the hours of day    *)
(* with at least 3 events of all time and (blocks + rate_limits) / total   *)
(* > 0.20, whether or not those events are within the trailing 24 hours.   *)
C13_RiskyHoursAllTime ==
    lastCall.recent > 0 =>
        history.current_strategy.risky_hours =
            {hr \in 0..23 :
                LET evs == EventsOfHour(hr)
                IN  /\ Len(evs) >= 3
                    /\ FracLess(<<1, 5>>,
                                Frac(CountKind(evs, {"block", "rate_limit"}), Len(evs)))}

\* An hour is risky of which fewer than 3 events are within the trailing 24 hours
C13_Witness ==
    /\ lastCall.recent > 0
    /\ \E hr \in history.current_strategy.risky_hours :
           Len(SelectSeq(RecentAtLastCall, LAMBDA e : e.hour = hr)) < 3

(* Vocabulary of the claims about the delays *)

\* 1.5 in a risky hour, 1 otherwise
RiskFactor == IF (clock % 24) \in RiskyHours(history) THEN <<3, 2>> ELSE <<1, 1>>

\* base * multiplier * risk factor
Scaled(base) == FracMul(FracMul(current_multiplier, base, 1), RiskFactor[1], RiskFactor[2])

FracLeq(f, g) == ~FracLess(g, f)

(* C14, as the code has it: get_page_delay returns a value between 5*m*r   *)
(* and 15*m*r seconds; get_cycle_delay returns a whole number of seconds   *)
(* that is at most 90*m*r minutes and less than 3 seconds below 60*m*r     *)
(* minutes (its bounds are truncated to whole seconds); r is 1.5 in a      *)
(* risky hour and 1 otherwise, and neither call changes the multiplier or  *)
(* the Strategy.                                                           *)
C14_DelayRangesTruncated ==
    /\ [](/\ lastDelay.op = "get_page_delay" =>
                /\ FracLeq(Scaled(5), lastDelay.value)
                /\ FracLeq(lastDelay.value, Scaled(15))
          /\ lastDelay.op = "get_random_interval" =>
                /\ lastDelay.value[2] = 1
                /\ FracLess(Scaled(60 * 60), <<lastDelay.value[1] + 3, 1>>)
                /\ FracLeq(lastDelay.value, Scaled(90 * 60)))
    /\ [][lastDelay'.op # "none" =>
             history' = history /\ current_multiplier' = current_multiplier]_vars

\* A cycle delay was drawn in a risky hour under a multiplier other than 1
C14_Witness ==
    /\ lastDelay.op = "get_random_interval"
    /\ RiskFactor = <<3, 2>>
    /\ current_multiplier # One

(* C14, as stated: get_page_delay returns a value between 5*m*r and 15*m*r *)
(* seconds and get_cycle_delay a value between 60*m*r and 90*m*r minutes.  *)
C14_DelayRangesExact ==
    /\ lastDelay.op = "get_page_delay" =>
          /\ FracLeq(Scaled(5), lastDelay.value)
          /\ FracLeq(lastDelay.value, Scaled(15))
    /\ lastDelay.op = "get_random_interval" =>
          /\ FracLeq(Scaled(60 * 60), lastDelay.value)
          /\ FracLeq(lastDelay.value, Scaled(90 * 60))

(* C15: the interval get_random_interval returns lies between a*m and b*m  *)
(* minutes, times 1.5 in a risky hour, for the configured bounds a and b   *)
(* (allowing the truncation to whole seconds below).                       *)
C15_ConfiguredIntervalIsBase ==
    lastDelay.op = "get_random_interval" =>
        /\ FracLess(Scaled(config.min_interval), <<lastDelay.value[1] + 3, 1>>)
        /\ FracLeq(lastDelay.value, Scaled(config.max_interval))

(* Vocabulary of the claims about the run loop and the dispatcher *)

Phases == lastIteration.trace

PhaseCount(ph) == Cardinality({i \in 1..Len(Phases) : Phases[i] = ph})

ErrorsLogged == CountKind(history.events, {"error"})

AllAttempted == \A i \in 1..lastDispatch.n : lastDispatch.attempts[i] >= 1

(* C16: an exception that escapes an iteration, from the pagination, the   *)
(* diff, the dispatch or the sleep, is caught: it is logged as an error    *)
(* event, reported, followed by the cooldown, and the loop goes on to the  *)
(* next iteration; the loop is left only by the stop signal.               *)
C16_CrashIsolation ==
    /\ [](iteration > 0 =>
             /\ lastIteration.fault \in {"scrape", "diff", "dispatch", "sleep"} =>
                    /\ Len(Phases) >= 4
                    /\ SubSeq(Phases, Len(Phases) - 3, Len(Phases))
                           = <<"exception", "log_error", "notify_error", "cooldown">>
                    /\ lastCall.op = "log_event" /\ lastCall.kind = "error"
                    /\ running
             /\ ~running => lastIteration.fault = "stop")
    /\ \A n \in 1..(MaxRuns - 1) :
          (iteration = n /\ lastIteration.fault \in {"scrape", "diff", "dispatch", "sleep"})
              ~> (iteration = n + 1)

\* The second iteration was interrupted by an exception as the first had been
C16_Witness ==
    /\ iteration = 2
    /\ lastIteration.fault = "diff"
    /\ ErrorsLogged = 2
    /\ running

(* C17: in an iteration the diff follows the pagination, and the entity    *)
(* map and the price history are saved before any notification for the    *)
(* run's diff is dispatched.                                               *)
C17_PersistBeforeDispatch ==
    \A i \in 1..Len(Phases) :
        /\ Phases[i] = "diff" => \E j \in 1..(i - 1) : Phases[j] = "scrape"
        /\ Phases[i] = "dispatch" => \E j \in 1..(i - 1) : Phases[j] = "save"

(* C18: every message of a batch handed to send_batch_telegram_messages    *)
(* gets at least one delivery attempt before the call returns: when the    *)
(* pool sends it, in sequential mode, and when the pool fails part-way.    *)
C18_AtLeastOnce ==
    (lastDispatch.called /\ ~lastDispatch.raised) => AllAttempted

\* The pool accepted the first of two messages and failed on the second, and
\* the sequential loop sent both
C18_Witness ==
    /\ lastDispatch.mode = "fallback"
    /\ lastDispatch.n = 2
    /\ lastDispatch.attempts = <<2, 1>>

(* C19: once use_parallel_messages is false it stays false and no later    *)
(* batch goes through the worker pool; the batch on which the pool failed  *)
(* is delivered by the sequential loop in the same call.                   *)
C19_StickyDegradation ==
    /\ [][~use_parallel_messages =>
             /\ ~use_parallel_messages'
             /\ lastDispatch'.mode \notin {"parallel", "fallback"}]_vars
    /\ [](lastDispatch.mode = "fallback" =>
             /\ ~use_parallel_messages
             /\ ~lastDispatch.raised
             /\ \A i \in 1..lastDispatch.n : lastDispatch.attempts[i] >= 1)

\* After the downgrade a batch offered a working pool went sequentially
C19_Witness ==
    /\ runs = 2
    /\ ~use_parallel_messages
    /\ lastDispatch.mode = "sequential"
    /\ lastDispatch.n = 2

(* C20: the diff of every run that completes the diff phase is handed to   *)
(* the dispatcher exactly once.  Stated for the runs whose diff is not     *)
(* empty.                                                                  *)
C20_DiffHandedToDispatcherOnce ==
    (/\ PhaseCount("diff") = 1
     /\ lastIteration.fault # "diff"
     /\ (diff.new # <<>> \/ diff.changes # <<>> \/ diff.removed # {}))
        => (PhaseCount("dispatch") = 1 /\ lastDispatch.called)

---------------------------------------------------------------------------
(* Vocabulary of the claims about a pagination pass *)

FetchedPages == stopReason.pages

\* A page the pass goes on after: fetched, with a listing that passed the test
GoesOn(p) ==
    PageAt(lastSite, p).ok /\ SelectValid(PageAt(lastSite, p).items) # <<>>

(* C21: a pagination pass fetches the pages 1, 2, ..., k one after another, *)
(* k <= max_pages, none twice and none out of order; page k is the first    *)
(* page for which fetch_page returned nothing or on which no listing was    *)
(* valid, or k = max_pages when there is no such page; no later page is     *)
(* fetched.                                                                 *)
C21_PagesInOrderUntilStop ==
    stopReason.reason \in {"no_content", "empty", "no_valid", "exhausted"} =>
        LET k == Len(FetchedPages)
        IN  /\ k >= 1 /\ k <= MaxPages
            /\ \A i \in 1..k : FetchedPages[i] = i
            /\ \A i \in 1..(k - 1) : GoesOn(i)
            /\ stopReason.reason = "no_content" => ~PageAt(lastSite, k).ok
            /\ stopReason.reason \in {"empty", "no_valid"} =>
                   /\ PageAt(lastSite, k).ok
                   /\ SelectValid(PageAt(lastSite, k).items) = <<>>
            /\ stopReason.reason = "exhausted" => (k = MaxPages /\ GoesOn(k))

\* The pass ended at page 3, for which the fetch failed, in a source whose
\* pages 1 and 2 held valid listings
C21_Witness ==
    /\ stopReason.reason = "no_content"
    /\ FetchedPages = <<1, 2, 3>>
    /\ Len(scraped) = 2

\* The pass read max_pages pages of a longer source
C21_WitnessExhausted ==
    /\ stopReason.reason = "exhausted"
    /\ Len(FetchedPages) = MaxPages

(* C22: whatever the watermark W, a pass that has fetched a page whose      *)
(* newest listing is older than W stops at that page: it is the last page   *)
(* fetched.                                                                 *)
C22_SmartStop ==
    stopReason.reason # "none" =>
        \A W \in Stamps : \A i \in 1..Len(FetchedPages) :
            LET pg == PageAt(lastSite, i)
            IN  (/\ pg.ok
                 /\ pg.items # <<>>
                 /\ \A j \in 1..Len(pg.items) : pg.items[j].ts < W)
                    => i = Len(FetchedPages)

(* C23: once an iteration of the run loop has begun, the watermark the next *)
(* run reads is the start time of that iteration, also when the iteration   *)
(* was interrupted by an exception.                                         *)
C23_WatermarkAtRunStart ==
    iteration > 0 => Watermark = clock

(* C24: the event list save_history writes never holds more than 1000       *)
(* events, and a log_event call leaves in it, in the order of their         *)
(* appends, the event it appended preceded by the latest of the events      *)
(* that were there: what is dropped is dropped from the old end.            *)
C24_LatestEventsKept ==
    /\ [](Len(history.events) <= EventCap)
    /\ [][lastCall'.op = "log_event" =>
             LET old == history.events
                 new == history'.events
                 n == Len(new)
                 dropped == Len(old) + 1 - n
             IN  /\ n >= 1
                 /\ dropped >= 0
                 /\ dropped > 0 => n = EventCap
                 /\ new[n].type = lastCall'.kind
                 /\ new[n].timestamp = lastCall'.time
                 /\ \A i \in 1..(n - 1) : new[i] = old[i + dropped]]_vars

\* The list is full and its oldest event, the error, has been dropped
C24_Witness ==
    /\ Len(history.events) = EventCap
    /\ history.events[1].type = "success"
    /\ calls >= 1

(* C25: in an analysis that proceeds, the recent events of the five kinds   *)
(* add up to the number of recent events, the denominator of both rates:    *)
(* successes + blocks + rate limits + timeouts + errors = total, and so     *)
(* success_rate + problem_rate <= 1.                                        *)
C25_CountsCoverRecent ==
    lastCall.recent > 0 =>
        LET total == Len(RecentAtLastCall)
            successes == CountKind(RecentAtLastCall, {"success"})
            blocks == CountKind(RecentAtLastCall, {"block"})
            rateLimits == CountKind(RecentAtLastCall, {"rate_limit"})
            timeouts == CountKind(RecentAtLastCall, {"timeout"})
            errors == CountKind(RecentAtLastCall, {"error"})
            sr == history.current_strategy.success_rate
            pr == history.current_strategy.problem_rate
        IN  /\ lastCall.recent = total
            /\ successes + blocks + rateLimits + timeouts + errors = total
            /\ sr = Frac(successes, total)
            /\ pr = Frac(blocks + rateLimits, total)
            /\ sr[1] * pr[2] + pr[1] * sr[2] <= sr[2] * pr[2]

\* fetch_page logged a timeout or an error and then a rate limit or a block,
\* whose analysis counted all of them
C25_Witness ==
    /\ lastFetch.page >= 1
    /\ lastCall.recent >= MinEvents
    /\ \E i \in 1..Len(lastFetch.steps) : lastFetch.steps[i].logged \in {"timeout", "error"}
    /\ CountKind(RecentAtLastCall, {"timeout", "error"}) > 0

(* C26: constructing the manager never raises, and on a history file that   *)
(* is absent or corrupt (not parseable, or parseable but not a history) it  *)
(* starts fresh: multiplier 1.0, no events, no aggregates.                  *)
C26_StartsFresh ==
    /\ ~lastStart.raised
    /\ (lastStart.kind \in {"absent", "unparseable", "malformed"} /\ lastCall.op = "init") =>
           /\ current_multiplier = One
           /\ history = DefaultHistory

(* C27: fetch_page makes at most max_retries attempts for a page, numbered  *)
(* 0, 1, 2 in order; it returns content exactly when its last attempt got   *)
(* status 200 without the block page, and nothing when all max_retries      *)
(* attempts ended in a retry.                                               *)
C27_BoundedAttempts ==
    lastFetch.page >= 1 =>
        LET steps == lastFetch.steps
            n == Len(steps)
        IN  /\ n >= 1
            /\ n <= MaxRetries
            /\ \A i \in 1..n : steps[i].attempt = i - 1
            /\ \A i \in 1..(n - 1) : steps[i].outcome # "ok"
            /\ lastFetch.content <=> steps[n].outcome = "ok"
            /\ (n = MaxRetries /\ steps[n].outcome # "ok") => ~lastFetch.content

\* Three attempts that met a timeout, a connection error and a 5xx: no content
C27_Witness ==
    /\ lastFetch.page >= 1
    /\ Len(lastFetch.steps) = MaxRetries
    /\ {lastFetch.steps[i].outcome : i \in 1..MaxRetries} = {"timeout", "connection", "5xx"}
    /\ ~lastFetch.content

\* Content from the third attempt after a rate limit and a block page
C27_WitnessContent ==
    /\ Len(lastFetch.steps) = MaxRetries
    /\ lastFetch.steps[1].outcome = "429"
    /\ lastFetch.steps[2].outcome = "block"
    /\ lastFetch.content

(* C28: an attempt that gets a status which is neither 200, 429 nor 5xx is  *)
(* the last attempt for the page: it logs one error event, fetch_page       *)
(* returns no content, and the pass fetches no further page.                *)
C28_FatalAbandonsPage ==
    /\ [](\A i \in 1..Len(lastFetch.steps) :
              lastFetch.steps[i].outcome = "4xx" =>
                  /\ i = Len(lastFetch.steps)
                  /\ lastFetch.steps[i].logged = "error"
                  /\ ~lastFetch.steps[i].analysed
                  /\ ~lastFetch.content
                  /\ lastCall.op = "log_event"
                  /\ lastCall.kind = "error"
                  /\ history.events[Len(history.events)].type = "error")
    /\ [][~lastFetch.content =>
              /\ lastFetch' = lastFetch
              /\ history' = history]_vars

\* The first attempt for page 2 got a fatal status after page 1 was fetched
C28_Witness ==
    /\ lastFetch.page = 2
    /\ Len(lastFetch.steps) = 1
    /\ lastFetch.steps[1].outcome = "4xx"
    /\ ~lastFetch.content

\* A fatal status on the second attempt, after a retried timeout
C28_WitnessSecondAttempt ==
    /\ Len(lastFetch.steps) = 2
    /\ lastFetch.steps[1].outcome = "timeout"
    /\ lastFetch.steps[2].outcome = "4xx"

(* C29: after a 429 or a block page the event is logged and the analysis    *)
(* has run before the cooldown is computed: the cooldown is                 *)
(* base * (attempt + 1) * the multiplier left by that analysis, base being  *)
(* 300 for a rate limit and the random draw for a block page, and the next  *)
(* attempt starts from the manager that analysis left.  So of two rate      *)
(* limits the later attempt, under a multiplier no smaller, waits longer.   *)
C29_AnalysisBeforeCooldown ==
    LET steps == lastFetch.steps
        n == Len(steps)
        Limited(i) == steps[i].outcome \in {"429", "block"}
    IN  /\ \A i \in 1..n : Limited(i) =>
               /\ steps[i].logged = (IF steps[i].outcome = "429" THEN "rate_limit" ELSE "block")
               /\ steps[i].analysed
               /\ \E base \in (IF steps[i].outcome = "429" THEN {RateLimitWait} ELSE BlockDraws) :
                      steps[i].cooldown = FracMul(steps[i].after, base * (steps[i].attempt + 1), 1)
               /\ i < n => steps[i + 1].before = steps[i].after
               /\ i = n => current_multiplier = steps[i].after
        /\ \A i, j \in 1..n :
               (/\ i < j
                /\ steps[i].outcome = "429"
                /\ steps[j].outcome = "429"
                /\ ~FracLess(steps[j].after, steps[i].after))
               => FracLess(steps[i].cooldown, steps[j].cooldown)

\* A rate limit whose analysis changed the multiplier, followed by another attempt
C29_Witness ==
    /\ Len(lastFetch.steps) >= 2
    /\ lastFetch.steps[1].outcome = "429"
    /\ lastFetch.steps[1].analysed
    /\ lastFetch.steps[1].before # lastFetch.steps[1].after
    /\ lastFetch.steps[2].outcome = "429"

\* The same for a block page
C29_WitnessBlock ==
    /\ Len(lastFetch.steps) >= 2
    /\ lastFetch.steps[1].outcome = "block"
    /\ lastFetch.steps[1].before # lastFetch.steps[1].after

(* C30: send_telegram_message makes at most max_retries attempts; it        *)
(* returns True exactly when an attempt got status 200, which is then the   *)
(* last attempt; an attempt that met 429, 5xx, a timeout or a connection    *)
(* error is followed by another while attempts remain; any other status is  *)
(* the last attempt and the send returns False.  Every call returns.        *)
C30_BoundedSend ==
    lastSend.called =>
        LET tried == lastSend.tried
            n == Len(tried)
            Retriable == {"429", "5xx", "timeout", "connection"}
        IN  /\ n >= 1
            /\ n <= SendMaxRetries
            /\ lastSend.result \in BOOLEAN
            /\ lastSend.result <=> \E i \in 1..n : tried[i] = "200"
            /\ \A i \in 1..n :
                   /\ (tried[i] \in Retriable /\ i < SendMaxRetries) => i < n
                   /\ tried[i] \in {"200", "other"} => i = n
                   /\ tried[i] = "other" => ~lastSend.result
            /\ (n < SendMaxRetries) => tried[n] \in {"200", "other"}

\* Status 200 on the third attempt after a rate limit and a timeout
C30_Witness ==
    /\ lastSend.called
    /\ lastSend.tried = <<"429", "timeout", "200">>
    /\ lastSend.result

\* A fatal status on the second attempt ends the send
C30_WitnessFatal ==
    /\ lastSend.tried = <<"5xx", "other">>
    /\ ~lastSend.result

\* Three retriable failures: the attempts are exhausted
C30_WitnessExhausted ==
    /\ lastSend.tried = <<"connection", "5xx", "429">>
    /\ ~lastSend.result

(* C31: a batch clears use_parallel_messages only when the pool failed with *)
(* the error of threads that cannot be started; after any other exception   *)
(* the dispatcher is still in parallel mode.                                *)
C31_DemotedOnlyByThreadExhaustion ==
    [][(use_parallel_messages /\ ~use_parallel_messages')
           => lastDispatch'.error = "cant_start_thread"]_vars

(* C32: every slice of the cycle sleep asks for at most 60 seconds and for  *)
(* no more than what remains of the interval; the sleep ends only when the  *)
(* time slept covers the interval; a stop signal during the cycle sleep     *)
(* leaves the loop at once, by break, and no iteration starts after it.     *)
C32_SlicedSleep ==
    /\ [](control.pc = "sleep" =>
              /\ control.slice <= SliceSeconds
              /\ control.slice <= control.interval
              /\ control.slept <= control.interval + SliceSeconds)
    /\ [][(control.pc = "sleep" /\ control'.pc = "top")
              => control.slept >= control.interval]_vars
    /\ [][(control.pc = "sleep" /\ control'.pc = "sleep" /\ control'.slices > 0)
              => control'.slices = control.slices + 1]_vars
    /\ [][(control.pc = "sleep" /\ control'.stopAt # "none")
              => /\ control'.pc = "done"
                 /\ control'.exit = "break"
                 /\ control'.stopAt = "sleep"
                 /\ iteration' = iteration]_vars
    /\ [][control.pc = "done" => iteration' = iteration]_vars

\* The stop signal arrives in the second slice of a sleep of an hour
C32_Witness ==
    /\ control.pc = "done"
    /\ control.stopAt = "sleep"
    /\ control.slices = 2
    /\ control.slept < control.interval
    /\ control.exit = "break"

\* A sleep that ran to its end in slices, the last shorter than 60 seconds
C32_WitnessWhole ==
    /\ control.pc = "sleep"
    /\ control.slept >= control.interval
    /\ control.slices >= 60
    /\ control.slice < SliceSeconds

(* C38: when the loop of monitor has been left on a stop signal, the        *)
(* 'Monitor Stopped' message was attempted first, in whichever phase the    *)
(* signal arrived: fetch, diff, dispatch, cycle sleep, or the cooldown of    *)
(* the exception handler.                                                   *)
C38_StoppedIsNotified ==
    control.stopAt # "none" =>
        /\ Len(control.notes) >= 1
        /\ control.notes[Len(control.notes)] = "stopped"

(* C33: at most one thread is inside a get_connection block, and it holds   *)
(* the lock; a block that is left normally commits its statements and one   *)
(* left by an exception commits none; either way the lock is free after;    *)
(* and no thread waits for the lock while it holds it.                      *)
C33_SerializedAccess ==
    /\ [](/\ Cardinality({t \in Threads : db.thread[t].pc = "inside"}) <= 1
          /\ \A t \in Threads : db.thread[t].pc = "inside" => db.lock = t
          /\ \A t \in Threads : db.lock = t => db.thread[t].inner = 1
          /\ \A t \in Threads : ~(db.thread[t].pc = "waiting" /\ db.lock = t))
    /\ [][\A t \in Threads :
              (db.thread[t].pc = "inside" /\ db'.thread[t].pc = "idle") =>
                  /\ db'.lock = "free"
                  /\ db'.last.thread = t
                  /\ db'.last.how \in {"commit", "rollback"}
                  /\ db'.last.how = "commit" =>
                         db'.committed = db.committed + db.thread[t].wrote
                  /\ db'.last.how = "rollback" => db'.committed = db.committed]_vars
    /\ [][db'.committed # db.committed => db'.last.how = "commit"]_vars

\* One thread is in its block with statements pending while the other waits
\* for the lock, after a block was rolled back
C33_Witness ==
    /\ db.thread["loop"].pc = "inside"
    /\ db.thread["loop"].wrote = 2
    /\ db.thread["dashboard"].pc = "waiting"
    /\ db.last.how = "rollback"
    /\ db.last.wrote > 0

\* A block committed its statements
C33_WitnessCommit ==
    /\ db.last.how = "commit"
    /\ db.committed >= 2
    /\ db.lock = "free"

(* C34: an iteration whose pagination returns no listing runs no diff,      *)
(* saves nothing and dispatches nothing: the active map, the price          *)
(* histories, the lists of the last diff and the saved files are as before, *)
(* so nothing is classified Removed, in every such iteration.               *)
C34_EmptyPassChangesNothing ==
    [][(iteration' = iteration + 1 /\ scraped' = <<>> /\ stopReason'.reason # "exception") =>
           /\ apartments' = apartments
           /\ price_history' = price_history
           /\ current_check_apartments' = current_check_apartments
           /\ diff' = diff
           /\ runs' = runs
           /\ data_file' = data_file
           /\ ~lastDispatch'.called
           /\ \A i \in 1..Len(lastIteration'.trace) :
                  lastIteration'.trace[i] \notin {"diff", "save", "dispatch"}]_vars

\* A second pass in a row returned nothing, page 1 holding only a listing
\* without price, while a listing is tracked
C34_Witness ==
    /\ iteration = 2
    /\ scraped = <<>>
    /\ stopReason.reason = "no_valid"
    /\ DOMAIN apartments # {}
    /\ diff.removed = {}
    /\ data_file.apartments = apartments

\* The pass returned nothing because fetch_page got nothing for page 1
C34_WitnessFetchFailed ==
    /\ iteration = 2
    /\ scraped = <<>>
    /\ stopReason.reason = "no_content"
    /\ stopReason.page = 1
    /\ DOMAIN apartments # {}

(* C35: an analysis that finds a problem rate above 0.10 among the recent   *)
(* events leaves the multiplier at least as large as it found it.           *)
C35_ElevatedRateNeverLowers ==
    [][(/\ calls' = calls + 1
        /\ lastCall'.analysed
        /\ lastCall'.recent > 0
        /\ FracLess(<<1, 10>>, history'.current_strategy.problem_rate))
       => ~FracLess(current_multiplier', current_multiplier)]_vars

(* C36: the multiplier in effect is the multiplier of the persisted         *)
(* Strategy, in every state, also right after a restart on a history whose  *)
(* Strategy an earlier process wrote.                                       *)
C36_MultiplierIsPersisted ==
    current_multiplier = history.current_strategy.page_delay_multiplier

(* C37: within one batch no message is handed to                            *)
(* send_single_telegram_message more than once, also when the pool fails    *)
(* after it accepted some messages and the sequential loop takes over.      *)
C37_AtMostOnce ==
    lastDispatch.called =>
        \A i \in 1..lastDispatch.n : lastDispatch.attempts[i] <= 1

\* The event kind stated for what an attempt met
KindFor(outcome) ==
    CASE outcome = "ok" -> "success"
      [] outcome = "429" -> "rate_limit"
      [] outcome = "block" -> "block"
      [] outcome = "timeout" -> "timeout"
      [] outcome \in {"5xx", "4xx", "connection", "exception"} -> "error"

(* C39: a fetch_page call appends one event for each attempt it made, in    *)
(* the order of the attempts and of the kind of what the attempt met, and   *)
(* nothing else: between 1 and max_retries events, the earlier events       *)
(* untouched.                                                               *)
C39_OneEventPerAttempt ==
    [][lastFetch'.page = lastFetch.page + 1 =>
           LET n == Len(lastFetch'.steps)
               before == Len(history.events)
           IN  /\ n \in 1..MaxRetries
               /\ Len(history'.events) = before + n
               /\ calls' = calls + n
               /\ \A i \in 1..before : history'.events[i] = history.events[i]
               /\ \A i \in 1..n :
                      history'.events[before + i].type
                          = KindFor(lastFetch'.steps[i].outcome)]_vars

\* Three attempts met a timeout, a connection error and a 429: the events
\* timeout, error, rate_limit were appended to a history of nine
C39_Witness ==
    /\ lastFetch.page = 1
    /\ Len(lastFetch.steps) = MaxRetries
    /\ lastFetch.steps[1].outcome = "timeout"
    /\ lastFetch.steps[2].outcome = "connection"
    /\ lastFetch.steps[3].outcome = "429"
    /\ Len(history.events) = 12
    /\ history.events[10].type = "timeout"
    /\ history.events[11].type = "error"
    /\ history.events[12].type = "rate_limit"

\* One attempt, one success event
C39_WitnessSuccess ==
    /\ lastFetch.page = 1
    /\ Len(lastFetch.steps) = 1
    /\ lastFetch.content
    /\ history.events[Len(history.events)].type = "success"

(* C40: every id of the active map has a price history of 1 to 50 entries;  *)
(* a run that removes an id leaves its price history as it was; an id that  *)
(* comes back is classified New and its entry is appended to the history    *)
(* kept, the oldest entry giving way at 50.                                 *)
C40_HistoryOutlivesRemoval ==
    /\ \A id \in DOMAIN apartments :
           /\ id \in DOMAIN price_history
           /\ Len(price_history[id]) >= 1
           /\ Len(price_history[id]) <= HistoryCap
    /\ \A id \in diff.removed :
           /\ id \notin DOMAIN apartments
           /\ id \in DOMAIN price_history
           /\ price_history[id] = preHistory[id]
    /\ \A id \in (DOMAIN apartments \ DOMAIN preApartments) \cap DOMAIN preHistory :
           LET old == preHistory[id]
               new == price_history[id]
           IN  /\ \E i \in 1..Len(diff.new) : diff.new[i].id = id
               /\ \A i \in 1..Len(diff.changes) : diff.changes[i].id # id
               /\ new[Len(new)] = [price |-> apartments[id].price,
                                   timestamp |-> apartments[id].last_seen]
               /\ IF Len(old) < HistoryCap
                  THEN SubSeq(new, 1, Len(new) - 1) = old
                  ELSE SubSeq(new, 1, Len(new) - 1) = SubSeq(old, 2, Len(old))

\* The listing came back with its 50 earlier prices kept: the new entry took
\* the place of the oldest
C40_Witness ==
    /\ "a" \in DOMAIN apartments
    /\ "a" \notin DOMAIN preApartments
    /\ "a" \in DOMAIN preHistory
    /\ Len(preHistory["a"]) = HistoryCap
    /\ Len(price_history["a"]) = HistoryCap
    /\ diff.new # <<>>

\* The listing was removed and its history of two prices stayed
C40_WitnessRemoved ==
    /\ diff.removed = {"a"}
    /\ "a" \notin DOMAIN apartments
    /\ Len(price_history["a"]) = 2

===========================================================================
